---- MODULE Spec2Model ----
(***************************************************************************)
(* Model of the security-headers middleware of SecureStack                 *)
(* (security/headers.js, carried in src/design_guidelines.md): the         *)
(* construction of the configuration by securityHeaders, rateLimitHeaders  *)
(* and botDetectionHeaders, and the header writes of the three Express     *)
(* middlewares they return.                                                *)
(***************************************************************************)
EXTENDS Integers, Sequences, FiniteSets, TLC

VARIABLES
  app,        \* the middleware instance attached to the application
  req,        \* inbound request headers of the current exchange: name -> JS value
  res,        \* response headers of the current exchange: name -> JS value
  resBefore,  \* the response headers as they were before the last invocation
  trace,      \* the calls made by the last invocation, in order
  thrown,     \* TRUE iff the last call (factory or middleware) raised a TypeError
  runs,       \* the number of middleware invocations on the current exchange
  last,       \* the function called last
  inflight,   \* the invocations in progress at once, each on its own exchange
  res0,       \* the response headers of the current exchange when the request arrived
  chain       \* the functions that have run on the current exchange, in order

vars == <<app, req, res, resBefore, trace, thrown, runs, last, inflight, res0, chain>>

-----------------------------------------------------------------------------
(* JavaScript values. Every value carries its type tag; an object is the    *)
(* sequence of its own <<key, value>> properties in insertion order, an     *)
(* array of source tokens is a sequence of strings.                         *)

Undefined == [t |-> "undefined"]
Null      == [t |-> "null"]
JBool(b)  == [t |-> "boolean", v |-> b]
JNum(n)   == [t |-> "number", v |-> n]
JStr(s)   == [t |-> "string", v |-> s]
JArr(a)   == [t |-> "array", v |-> a]
JObj(e)   == [t |-> "object", v |-> e]

\* x === undefined || x === null
Nullish(x) == x.t \in {"undefined", "null"}

\* ToBoolean(x), the test of `if (x)`
Truthy(x) ==
  CASE x.t = "undefined" -> FALSE
    [] x.t = "null"      -> FALSE
    [] x.t = "boolean"   -> x.v
    [] x.t = "number"    -> x.v # 0
    [] x.t = "string"    -> x.v # ""
    [] OTHER             -> TRUE

\* `x ?? d` falling back on 0 and false as well
Coalesce_ZeroIsMissing(x, d) ==
  CASE x.t \in {"undefined", "null"} -> d
    [] x.t = "number" -> IF x.v = 0 THEN d ELSE x
    [] x.t = "boolean" -> IF x.v THEN x ELSE d
    [] OTHER -> x

\* a ?? b written as a || b: every falsy a gives way to b
Coalesce_Falsy(a, b) == IF Truthy(a) THEN a ELSE b

\* a ?? b
Coalesce(a, b) == IF Nullish(a) THEN b ELSE a

\* a || b
OrElse(a, b) == IF Truthy(a) THEN a ELSE b

\* the keys of an object, in insertion order
RECURSIVE Keys(_)
Keys(e) == IF e = <<>> THEN <<>> ELSE <<Head(e)[1]>> \o Keys(Tail(e))

\* o.k on a value that is not nullish: an own property, else undefined
Get(o, k) ==
  IF o.t = "object" /\ \E i \in DOMAIN o.v : o.v[i][1] = k
  THEN o.v[CHOOSE i \in DOMAIN o.v : o.v[i][1] = k][2]
  ELSE Undefined

\* o?.k
OptGet(o, k) == IF Nullish(o) THEN Undefined ELSE Get(o, k)

\* Object.entries(o) of an object, a number or a boolean
ObjectEntries(o) == IF o.t = "object" THEN o.v ELSE <<>>

\* `${x}` of a number, a string or a boolean
TemplateString(x) ==
  CASE x.t = "number"  -> ToString(x.v)
    [] x.t = "string"  -> x.v
    [] x.t = "boolean" -> IF x.v THEN "true" ELSE "false"
    [] OTHER           -> x.t

\* Array.prototype.join over strings
RECURSIVE Join(_, _)
Join(a, sep) ==
  IF a = <<>> THEN ""
  ELSE IF Len(a) = 1 THEN a[1]
  ELSE a[1] \o sep \o Join(Tail(a), sep)

\* String.prototype.includes
includes(s, p) ==
  \E i \in 1..(Len(s) - Len(p) + 1) : SubSeq(s, i, i + Len(p) - 1) = p

-----------------------------------------------------------------------------
(* The run of one middleware invocation: the response headers so far, the   *)
(* calls made so far and whether a TypeError has escaped.                   *)

Run0(r) == [res |-> r, trace |-> <<>>, thrown |-> FALSE]

\* setHeader appending to a string header already present, as res.append does
setHeader_Append(st, name, value) ==
  [st EXCEPT !.res = (name :> IF /\ name \in DOMAIN @
                                 /\ @[name].t = "string"
                                 /\ value.t = "string"
                              THEN JStr(@[name].v \o ", " \o value.v)
                              ELSE value) @@ @,
             !.trace = Append(@, <<"setHeader", name, value>>)]

\* res.setHeader(name, value): overwrites the header of that name
setHeader(st, name, value) ==
  [st EXCEPT !.res = (name :> value) @@ @,
             !.trace = Append(@, <<"setHeader", name, value>>)]

\* res.get(name) / req.get(name)
getHeader(h, name) == IF name \in DOMAIN h THEN h[name] ELSE Undefined

\* next()
callNext(st) == [st EXCEPT !.trace = Append(@, <<"next">>)]

\* an uncaught TypeError: the rest of the function body is not executed
throwTypeError(st) == [st EXCEPT !.thrown = TRUE]

-----------------------------------------------------------------------------
(* securityHeaders(options): the configuration                              *)

\* the default of csp.directives without upgradeInsecureRequests
DefaultDirectives_NoUpgrade ==
  JObj(<< <<"defaultSrc", JArr(<<"'self'">>)>>,
          <<"scriptSrc", JArr(<<"'self'", "'unsafe-inline'">>)>>,
          <<"styleSrc", JArr(<<"'self'", "'unsafe-inline'", "https://fonts.googleapis.com">>)>>,
          <<"imgSrc", JArr(<<"'self'", "data:", "https:">>)>>,
          <<"fontSrc", JArr(<<"'self'", "https://fonts.gstatic.com">>)>>,
          <<"connectSrc", JArr(<<"'self'">>)>>,
          <<"frameSrc", JArr(<<"'none'">>)>>,
          <<"objectSrc", JArr(<<"'none'">>)>>,
          <<"baseUri", JArr(<<"'self'">>)>>,
          <<"formAction", JArr(<<"'self'">>)>>,
          <<"frameAncestors", JArr(<<"'none'">>)>> >>)

\* the default of csp.directives
DefaultDirectives ==
  JObj(<< <<"defaultSrc", JArr(<<"'self'">>)>>,
          <<"scriptSrc", JArr(<<"'self'", "'unsafe-inline'">>)>>,
          <<"styleSrc", JArr(<<"'self'", "'unsafe-inline'", "https://fonts.googleapis.com">>)>>,
          <<"imgSrc", JArr(<<"'self'", "data:", "https:">>)>>,
          <<"fontSrc", JArr(<<"'self'", "https://fonts.gstatic.com">>)>>,
          <<"connectSrc", JArr(<<"'self'">>)>>,
          <<"frameSrc", JArr(<<"'none'">>)>>,
          <<"objectSrc", JArr(<<"'none'">>)>>,
          <<"baseUri", JArr(<<"'self'">>)>>,
          <<"formAction", JArr(<<"'self'">>)>>,
          <<"frameAncestors", JArr(<<"'none'">>)>>,
          <<"upgradeInsecureRequests", JBool(TRUE)>> >>)

\* the default of permissionsPolicy
DefaultPermissionsPolicy ==
  JObj(<< <<"accelerometer", JArr(<<>>)>>,
          <<"camera", JArr(<<>>)>>,
          <<"geolocation", JArr(<<>>)>>,
          <<"gyroscope", JArr(<<>>)>>,
          <<"magnetometer", JArr(<<>>)>>,
          <<"microphone", JArr(<<>>)>>,
          <<"payment", JArr(<<>>)>>,
          <<"usb", JArr(<<>>)>> >>)

\* the default parameter `options = {}`: only undefined is replaced
DefaultParam(options) == IF options.t = "undefined" THEN JObj(<<>>) ELSE options

\* `options.hsts` on options === null raises a TypeError
factoryThrows(options) == DefaultParam(options).t = "null"

\* securityHeadersConfig taking a supplied hsts, csp or crossOrigin object
\* whole, `options.hsts ?? { ...defaults }`, instead of field by field
securityHeadersConfig_WholeGroup(options) ==
  LET o    == DefaultParam(options)
      hsts == Get(o, "hsts")
      csp  == Get(o, "csp")
      co   == Get(o, "crossOrigin")
      Field(group, key, default) ==
        IF Nullish(group) THEN default ELSE OptGet(group, key)
  IN [hsts |-> [enabled |-> Field(hsts, "enabled", JBool(TRUE)),
                maxAge |-> Field(hsts, "maxAge", JNum(31536000)),
                includeSubDomains |-> Field(hsts, "includeSubDomains", JBool(TRUE)),
                preload |-> Field(hsts, "preload", JBool(FALSE))],
      csp |-> [enabled |-> Field(csp, "enabled", JBool(TRUE)),
               directives |-> Field(csp, "directives", DefaultDirectives)],
      xFrameOptions |-> Coalesce(Get(o, "xFrameOptions"), JStr("DENY")),
      xContentTypeOptions |-> Coalesce(Get(o, "xContentTypeOptions"), JStr("nosniff")),
      xXssProtection |-> Coalesce(Get(o, "xXssProtection"), JStr("1; mode=block")),
      referrerPolicy |-> Coalesce(Get(o, "referrerPolicy"), JStr("strict-origin-when-cross-origin")),
      permissionsPolicy |-> Coalesce(Get(o, "permissionsPolicy"), DefaultPermissionsPolicy),
      crossOrigin |-> [embedderPolicy |-> Field(co, "embedderPolicy", JStr("require-corp")),
                       openerPolicy |-> Field(co, "openerPolicy", JStr("same-origin")),
                       resourcePolicy |-> Field(co, "resourcePolicy", JStr("same-origin"))],
      cacheControl |-> Coalesce(Get(o, "cacheControl"),
                                JStr("no-store, no-cache, must-revalidate, proxy-revalidate"))]

\* securityHeadersConfig merging a supplied csp.directives or permissionsPolicy
\* map over the default one, `{ ...defaults, ...supplied }`
securityHeadersConfig_MergedMaps(options) ==
  LET o    == DefaultParam(options)
      hsts == Get(o, "hsts")
      csp  == Get(o, "csp")
      co   == Get(o, "crossOrigin")
      Spread(default, supplied) ==
        IF supplied.t # "object" THEN Coalesce(supplied, default)
        ELSE JObj([i \in DOMAIN default.v |->
                     IF \E j \in DOMAIN supplied.v : supplied.v[j][1] = default.v[i][1]
                     THEN <<default.v[i][1], Get(supplied, default.v[i][1])>>
                     ELSE default.v[i]]
                  \o SelectSeq(supplied.v,
                               LAMBDA e : \A i \in DOMAIN default.v : default.v[i][1] # e[1]))
  IN [hsts |-> [enabled |-> Coalesce(OptGet(hsts, "enabled"), JBool(TRUE)),
                maxAge |-> Coalesce(OptGet(hsts, "maxAge"), JNum(31536000)),
                includeSubDomains |-> Coalesce(OptGet(hsts, "includeSubDomains"), JBool(TRUE)),
                preload |-> Coalesce(OptGet(hsts, "preload"), JBool(FALSE))],
      csp |-> [enabled |-> Coalesce(OptGet(csp, "enabled"), JBool(TRUE)),
               directives |-> Spread(DefaultDirectives, OptGet(csp, "directives"))],
      xFrameOptions |-> Coalesce(Get(o, "xFrameOptions"), JStr("DENY")),
      xContentTypeOptions |-> Coalesce(Get(o, "xContentTypeOptions"), JStr("nosniff")),
      xXssProtection |-> Coalesce(Get(o, "xXssProtection"), JStr("1; mode=block")),
      referrerPolicy |-> Coalesce(Get(o, "referrerPolicy"), JStr("strict-origin-when-cross-origin")),
      permissionsPolicy |-> Spread(DefaultPermissionsPolicy, Get(o, "permissionsPolicy")),
      crossOrigin |-> [embedderPolicy |-> Coalesce(OptGet(co, "embedderPolicy"), JStr("require-corp")),
                       openerPolicy |-> Coalesce(OptGet(co, "openerPolicy"), JStr("same-origin")),
                       resourcePolicy |-> Coalesce(OptGet(co, "resourcePolicy"), JStr("same-origin"))],
      cacheControl |-> Coalesce(Get(o, "cacheControl"),
                                JStr("no-store, no-cache, must-revalidate, proxy-revalidate"))]

\* the `config` object built by securityHeaders(options)
securityHeadersConfig(options) ==
  LET o    == DefaultParam(options)
      hsts == Get(o, "hsts")
      csp  == Get(o, "csp")
      co   == Get(o, "crossOrigin")
  IN [hsts |-> [enabled |-> Coalesce(OptGet(hsts, "enabled"), JBool(TRUE)),
                maxAge |-> Coalesce(OptGet(hsts, "maxAge"), JNum(31536000)),
                includeSubDomains |-> Coalesce(OptGet(hsts, "includeSubDomains"), JBool(TRUE)),
                preload |-> Coalesce(OptGet(hsts, "preload"), JBool(FALSE))],
      csp |-> [enabled |-> Coalesce(OptGet(csp, "enabled"), JBool(TRUE)),
               directives |-> Coalesce(OptGet(csp, "directives"), DefaultDirectives)],
      xFrameOptions |-> Coalesce(Get(o, "xFrameOptions"), JStr("DENY")),
      xContentTypeOptions |-> Coalesce(Get(o, "xContentTypeOptions"), JStr("nosniff")),
      xXssProtection |-> Coalesce(Get(o, "xXssProtection"), JStr("1; mode=block")),
      referrerPolicy |-> Coalesce(Get(o, "referrerPolicy"), JStr("strict-origin-when-cross-origin")),
      permissionsPolicy |-> Coalesce(Get(o, "permissionsPolicy"), DefaultPermissionsPolicy),
      crossOrigin |-> [embedderPolicy |-> Coalesce(OptGet(co, "embedderPolicy"), JStr("require-corp")),
                       openerPolicy |-> Coalesce(OptGet(co, "openerPolicy"), JStr("same-origin")),
                       resourcePolicy |-> Coalesce(OptGet(co, "resourcePolicy"), JStr("same-origin"))],
      cacheControl |-> Coalesce(Get(o, "cacheControl"),
                                JStr("no-store, no-cache, must-revalidate, proxy-revalidate"))]

-----------------------------------------------------------------------------
(* securityHeadersMiddleware(req, res, next), block by block                *)

\* hstsValue with the two suffixes appended in the other order
hstsValue_PreloadFirst(hsts) ==
  "max-age=" \o TemplateString(hsts.maxAge)
    \o (IF Truthy(hsts.preload) THEN "; preload" ELSE "")
    \o (IF Truthy(hsts.includeSubDomains) THEN "; includeSubDomains" ELSE "")

\* the value of Strict-Transport-Security
hstsValue(hsts) ==
  "max-age=" \o TemplateString(hsts.maxAge)
    \o (IF Truthy(hsts.includeSubDomains) THEN "; includeSubDomains" ELSE "")
    \o (IF Truthy(hsts.preload) THEN "; preload" ELSE "")

\* hstsBlock without the test of config.hsts.enabled
hstsBlock_NoEnabledTest(config, st) ==
  setHeader(st, "Strict-Transport-Security",
            JStr("max-age=" \o TemplateString(config.hsts.maxAge)))

\* hstsBlock clearing the header, res.removeHeader, when the policy is disabled
hstsBlock_RemovesWhenDisabled(config, st) ==
  IF Truthy(config.hsts.enabled)
  THEN setHeader(st, "Strict-Transport-Security", JStr(hstsValue(config.hsts)))
  ELSE [st EXCEPT !.res = [n \in DOMAIN @ \ {"Strict-Transport-Security"} |-> @[n]]]

\* hstsBlock leaving a Strict-Transport-Security header the response
\* already has
hstsBlock_KeepsExisting(config, st) ==
  IF Truthy(config.hsts.enabled) /\ "Strict-Transport-Security" \notin DOMAIN st.res
  THEN setHeader(st, "Strict-Transport-Security", JStr(hstsValue(config.hsts)))
  ELSE st

\* the HSTS block
hstsBlock(config, st) ==
  IF Truthy(config.hsts.enabled)
  THEN setHeader(st, "Strict-Transport-Security", JStr(hstsValue(config.hsts)))
  ELSE st

\* CspListDirectives with the img-src and font-src tests exchanged
CspListDirectives_FontBeforeImg ==
  << <<"defaultSrc", "default-src">>,
     <<"scriptSrc", "script-src">>,
     <<"styleSrc", "style-src">>,
     <<"fontSrc", "font-src">>,
     <<"imgSrc", "img-src">>,
     <<"connectSrc", "connect-src">>,
     <<"frameSrc", "frame-src">>,
     <<"objectSrc", "object-src">>,
     <<"baseUri", "base-uri">>,
     <<"formAction", "form-action">>,
     <<"frameAncestors", "frame-ancestors">> >>

\* the list directives tested by the CSP block, in the order of its `if`s:
\* <<key of the directives object, directive name>>
CspListDirectives ==
  << <<"defaultSrc", "default-src">>,
     <<"scriptSrc", "script-src">>,
     <<"styleSrc", "style-src">>,
     <<"imgSrc", "img-src">>,
     <<"fontSrc", "font-src">>,
     <<"connectSrc", "connect-src">>,
     <<"frameSrc", "frame-src">>,
     <<"objectSrc", "object-src">>,
     <<"baseUri", "base-uri">>,
     <<"formAction", "form-action">>,
     <<"frameAncestors", "frame-ancestors">> >>

\* `<name> ${d.join(' ')}`
cspClause(name, d) == name \o " " \o Join(d.v, " ")

\* the pushes of the list directives from the i-th `if` on: the clauses
\* pushed, and whether a `.join` of a value that is no array raised
RECURSIVE cspListClauses(_, _)
cspListClauses(directives, i) ==
  IF i > Len(CspListDirectives) THEN [clauses |-> <<>>, thrown |-> FALSE]
  ELSE LET d == Get(directives, CspListDirectives[i][1])
       IN IF ~Truthy(d) THEN cspListClauses(directives, i + 1)
          ELSE IF d.t # "array" THEN [clauses |-> <<>>, thrown |-> TRUE]
          ELSE LET rest == cspListClauses(directives, i + 1)
               IN [clauses |-> <<cspClause(CspListDirectives[i][2], d)>> \o rest.clauses,
                   thrown |-> rest.thrown]

\* the array cspDirectives at the end of the CSP block
cspDirectives(directives) ==
  LET l == cspListClauses(directives, 1)
  IN [clauses |-> l.clauses \o
                  (IF Truthy(Get(directives, "upgradeInsecureRequests"))
                   THEN <<"upgrade-insecure-requests">> ELSE <<>>),
      thrown |-> l.thrown]

\* the Content-Security-Policy block
cspBlock(config, st) ==
  IF st.thrown \/ ~Truthy(config.csp.enabled) THEN st
  ELSE LET c == cspDirectives(config.csp.directives)
       IN IF c.thrown THEN throwTypeError(st)
          ELSE setHeader(st, "Content-Security-Policy", JStr(Join(c.clauses, "; ")))

\* `if (value) res.setHeader(name, value)`
setIfTruthy(st, name, value) ==
  IF st.thrown \/ ~Truthy(value) THEN st ELSE setHeader(st, name, value)

\* X-Frame-Options, X-Content-Type-Options, X-XSS-Protection, Referrer-Policy
legacyBlock(config, st) ==
  LET s1 == setIfTruthy(st, "X-Frame-Options", config.xFrameOptions)
      s2 == setIfTruthy(s1, "X-Content-Type-Options", config.xContentTypeOptions)
      s3 == setIfTruthy(s2, "X-XSS-Protection", config.xXssProtection)
  IN setIfTruthy(s3, "Referrer-Policy", config.referrerPolicy)

\* `allowList.length` raises on null and undefined; `allowList.join` raises on
\* a string of length > 0, which has no join
allowListThrows(allowList) ==
  \/ Nullish(allowList)
  \/ allowList.t = "string" /\ allowList.v # ""

\* allowListValue with the parentheses around a non-empty list left out
allowListValue_NoParentheses(allowList) ==
  IF allowList.t = "array" /\ Len(allowList.v) > 0
  THEN Join(allowList.v, " ")
  ELSE "()"

\* allowList.length > 0 ? `(${allowList.join(' ')})` : '()'
allowListValue(allowList) ==
  IF allowList.t = "array" /\ Len(allowList.v) > 0
  THEN "(" \o Join(allowList.v, " ") \o ")"
  ELSE "()"

\* the entries of the Permissions-Policy value, from the i-th entry on
RECURSIVE permissionsEntries(_, _)
permissionsEntries(entries, i) ==
  IF i > Len(entries) THEN [items |-> <<>>, thrown |-> FALSE]
  ELSE IF allowListThrows(entries[i][2]) THEN [items |-> <<>>, thrown |-> TRUE]
  ELSE LET rest == permissionsEntries(entries, i + 1)
       IN [items |-> <<entries[i][1] \o "=" \o allowListValue(entries[i][2])>> \o rest.items,
           thrown |-> rest.thrown]

\* the Permissions-Policy block
permissionsBlock(config, st) ==
  IF st.thrown \/ ~Truthy(config.permissionsPolicy) THEN st
  ELSE LET p == permissionsEntries(ObjectEntries(config.permissionsPolicy), 1)
       IN IF p.thrown THEN throwTypeError(st)
          ELSE setHeader(st, "Permissions-Policy", JStr(Join(p.items, ", ")))

\* the three Cross-Origin-*-Policy headers
crossOriginBlock(config, st) ==
  LET s1 == setIfTruthy(st, "Cross-Origin-Embedder-Policy", config.crossOrigin.embedderPolicy)
      s2 == setIfTruthy(s1, "Cross-Origin-Opener-Policy", config.crossOrigin.openerPolicy)
  IN setIfTruthy(s2, "Cross-Origin-Resource-Policy", config.crossOrigin.resourcePolicy)

\* isStaticAsset without the test for fonts
isStaticAsset_NoFont(contentType) ==
  \/ includes(contentType, "image")
  \/ includes(contentType, "css")
  \/ includes(contentType, "javascript")

\* the test of the Cache-Control block on res.get('Content-Type') || ''
isStaticAsset(contentType) ==
  \/ includes(contentType, "image")
  \/ includes(contentType, "font")
  \/ includes(contentType, "css")
  \/ includes(contentType, "javascript")

\* the Cache-Control block
cacheBlock(config, st) ==
  IF st.thrown THEN st
  ELSE LET contentType == OrElse(getHeader(st.res, "Content-Type"), JStr(""))
       IN IF isStaticAsset(contentType.v) THEN st
          ELSE LET s1 == setHeader(st, "Cache-Control", config.cacheControl)
                   s2 == setHeader(s1, "Pragma", JStr("no-cache"))
               IN setHeader(s2, "Expires", JStr("0"))

\* the closing next()
nextBlock(st) == IF st.thrown THEN st ELSE callNext(st)

\* the whole of securityHeadersMiddleware(req, res, next) on response headers r
securityHeadersMiddleware(config, q, r) ==
  LET s1 == hstsBlock(config, Run0(r))
      s2 == cspBlock(config, s1)
      s3 == legacyBlock(config, s2)
      s4 == permissionsBlock(config, s3)
      s5 == crossOriginBlock(config, s4)
      s6 == cacheBlock(config, s5)
  IN nextBlock(s6)

-----------------------------------------------------------------------------
(* rateLimitHeaders(options) and rateLimitHeadersMiddleware                 *)

\* the `config` object built by rateLimitHeaders(options)
rateLimitHeadersConfig(options) ==
  LET o == DefaultParam(options)
  IN [limit |-> Coalesce(Get(o, "limit"), JNum(100)),
      window |-> Coalesce(Get(o, "window"), JNum(60)),
      remaining |-> Coalesce(Get(o, "remaining"), Null)]

\* rateLimitHeadersMiddleware testing `if (config.remaining)` instead of
\* `!== null`
rateLimitHeadersMiddleware_TruthyRemaining(config, q, r) ==
  LET s1 == setHeader(Run0(r), "X-RateLimit-Limit", config.limit)
      s2 == setHeader(s1, "X-RateLimit-Window", config.window)
      s3 == IF Truthy(config.remaining)
            THEN setHeader(s2, "X-RateLimit-Remaining", config.remaining)
            ELSE s2
      s4 == setHeader(s3, "CF-Cache-Status", JStr("DYNAMIC"))
  IN nextBlock(s4)

\* rateLimitHeadersMiddleware counting down from the X-RateLimit-Remaining
\* the response already carries
rateLimitHeadersMiddleware_CountsDown(config, q, r) ==
  LET seen == getHeader(r, "X-RateLimit-Remaining")
      s1 == setHeader(Run0(r), "X-RateLimit-Limit", config.limit)
      s2 == setHeader(s1, "X-RateLimit-Window", config.window)
      s3 == IF config.remaining # Null
            THEN setHeader(s2, "X-RateLimit-Remaining",
                           IF seen.t = "number" THEN JNum(seen.v - 1) ELSE config.remaining)
            ELSE s2
      s4 == setHeader(s3, "CF-Cache-Status", JStr("DYNAMIC"))
  IN nextBlock(s4)

\* rateLimitHeadersMiddleware marking the response with Cache-Control
\* instead of CF-Cache-Status
rateLimitHeadersMiddleware_SetsCacheControl(config, q, r) ==
  LET s1 == setHeader(Run0(r), "X-RateLimit-Limit", config.limit)
      s2 == setHeader(s1, "X-RateLimit-Window", config.window)
      s3 == IF config.remaining # Null
            THEN setHeader(s2, "X-RateLimit-Remaining", config.remaining)
            ELSE s2
      s4 == setHeader(s3, "Cache-Control", JStr("no-cache"))
  IN nextBlock(s4)

\* the whole of rateLimitHeadersMiddleware(req, res, next)
rateLimitHeadersMiddleware(config, q, r) ==
  LET s1 == setHeader(Run0(r), "X-RateLimit-Limit", config.limit)
      s2 == setHeader(s1, "X-RateLimit-Window", config.window)
      s3 == IF config.remaining # Null
            THEN setHeader(s2, "X-RateLimit-Remaining", config.remaining)
            ELSE s2
      s4 == setHeader(s3, "CF-Cache-Status", JStr("DYNAMIC"))
  IN nextBlock(s4)

-----------------------------------------------------------------------------
(* botDetectionHeaders(options) and botDetectionHeadersMiddleware           *)

\* the `config` object built by botDetectionHeaders(options)
botDetectionHeadersConfig(options) ==
  [challengeMode |-> Coalesce(Get(DefaultParam(options), "challengeMode"), JBool(FALSE))]

\* the whole of botDetectionHeadersMiddleware(req, res, next)
botDetectionHeadersMiddleware(config, q, r) ==
  LET cfBotScore    == getHeader(q, "CF-Bot-Score")
      cfVerifiedBot == getHeader(q, "CF-Verified-Bot")
      s1 == setIfTruthy(Run0(r), "X-Bot-Score", cfBotScore)
      s2 == setIfTruthy(s1, "X-Verified-Bot", cfVerifiedBot)
  IN nextBlock(s2)

-----------------------------------------------------------------------------
(* securityHeadersFastify(options)                                          *)

\* the async hook returned by securityHeadersFastify, on reply headers r: the
\* wrapped middleware runs inside `new Promise((resolve) => ...)` with
\* reply.header as setHeader, reply.getHeader as get and resolve as next. A
\* TypeError raised by the middleware inside the executor rejects the
\* promise: the hook itself raises nothing and resolve is never called.
securityHeadersFastifyHook(config, q, r) ==
  LET st == securityHeadersMiddleware(config, q, r)
  IN [res |-> st.res,
      trace |-> [i \in DOMAIN st.trace |->
                   IF st.trace[i] = <<"next">> THEN <<"resolve">> ELSE st.trace[i]]
                \o (IF st.thrown THEN << <<"reject">> >> ELSE <<>>),
      thrown |-> FALSE]

-----------------------------------------------------------------------------
(* securityHeadersHono(options) and buildConfig                             *)

\* buildConfig(options): the `config` of the adapters
buildConfig(options) ==
  LET o    == DefaultParam(options)
      hsts == Get(o, "hsts")
  IN [hsts |-> [enabled |-> Coalesce(OptGet(hsts, "enabled"), JBool(TRUE)),
                maxAge |-> Coalesce(OptGet(hsts, "maxAge"), JNum(31536000)),
                includeSubDomains |-> Coalesce(OptGet(hsts, "includeSubDomains"), JBool(TRUE)),
                preload |-> Coalesce(OptGet(hsts, "preload"), JBool(FALSE))],
      xFrameOptions |-> Coalesce(Get(o, "xFrameOptions"), JStr("DENY")),
      xContentTypeOptions |-> Coalesce(Get(o, "xContentTypeOptions"), JStr("nosniff")),
      xXssProtection |-> Coalesce(Get(o, "xXssProtection"), JStr("1; mode=block")),
      referrerPolicy |-> Coalesce(Get(o, "referrerPolicy"), JStr("strict-origin-when-cross-origin"))]

\* c.header(name, value) of a value that is not undefined: sets the header,
\* an empty string included
cHeader(st, name, value) == setHeader(st, name, value)

\* the handler returned by securityHeadersHono, called on response headers r,
\* up to its `await next()`: next is called and the handler gives the event
\* loop back with its promise pending and no header written
securityHeadersHonoCall(r) == callNext(Run0(r))

\* the rest of the handler, run in one piece once next() has settled, on the
\* run state s0 the downstream handlers left: the headers are applied without
\* a test of their values
securityHeadersHonoResume(config, s0) ==
  LET s1 == IF Truthy(config.hsts.enabled)
            THEN cHeader(s0, "Strict-Transport-Security", JStr(hstsValue(config.hsts)))
            ELSE s0
      s2 == cHeader(s1, "X-Frame-Options", config.xFrameOptions)
      s3 == cHeader(s2, "X-Content-Type-Options", config.xContentTypeOptions)
  IN cHeader(s3, "Referrer-Policy", config.referrerPolicy)

-----------------------------------------------------------------------------
(* Bounds of the inputs                                                     *)

\* the longest list of source tokens or origins in a supplied map
MaxTokens == 2
\* the largest number of keys in a supplied csp.directives object
MaxDirectives == 2
\* the largest number of features in a supplied permissionsPolicy object
MaxFeatures == 2
\* the largest number of middleware invocations on one exchange
MaxRuns == 2
\* invocations of one instance in progress at the same time
MaxInFlight == 2

-----------------------------------------------------------------------------
(* The options callers pass                                                 *)

\* an object literal; a property given as undefined reads as an absent one
MkObj(pairs) == JObj(SelectSeq(pairs, LAMBDA p : p[2] # Undefined))

TokenPool == <<"'self'", "https:", "data:", "'none'">>

\* the array of the first n tokens of the pool
TokenList(n) == JArr([i \in 1..n |-> TokenPool[((i - 1) % Len(TokenPool)) + 1]])

\* the ascending sequence of a finite set of integers
RECURSIVE Ascending(_)
Ascending(K) ==
  IF K = {} THEN <<>>
  ELSE LET m == CHOOSE x \in K : \A y \in K : x <= y
       IN <<m>> \o Ascending(K \ {m})

Reverse(q) == [i \in 1..Len(q) |-> q[Len(q) + 1 - i]]

\* the keys a caller may put in csp.directives: the twelve of the defaults
\* and one the middleware does not know
DirectiveKeys ==
  [i \in 1..Len(CspListDirectives) |-> CspListDirectives[i][1]]
    \o <<"upgradeInsecureRequests", "workerSrc">>

\* a directives object with the keys of index set K (in declaration order, or
\* reversed), token lists of lengths varying with position and shift
DirectiveMap(K, rev, shift) ==
  LET ks == IF rev THEN Reverse(Ascending(K)) ELSE Ascending(K)
  IN JObj([j \in 1..Len(ks) |->
             <<DirectiveKeys[ks[j]],
               IF DirectiveKeys[ks[j]] = "upgradeInsecureRequests"
               THEN JBool(shift % 2 = 0)
               ELSE TokenList((j + shift) % (MaxTokens + 1))>>])

\* every key alone with every list length, and every set of up to
\* MaxDirectives keys in both orders
DirectiveMaps ==
  { DirectiveMap({k}, FALSE, shift) : k \in 1..Len(DirectiveKeys), shift \in 0..MaxTokens }
  \cup { DirectiveMap(K, rev, 0) :
           K \in {X \in SUBSET (1..Len(DirectiveKeys)) : Cardinality(X) <= MaxDirectives},
           rev \in BOOLEAN }

\* directives objects holding a value that is no list
MalformedDirectiveMaps ==
  { JObj(<< <<DirectiveKeys[k], bad>> >>) :
      k \in 1..Len(DirectiveKeys), bad \in {Null, JStr("'self'"), JStr("")} }
  \cup { JObj(<< <<"defaultSrc", TokenList(1)>>, <<"scriptSrc", JStr("'self'")>> >>) }

FeaturePool == <<"camera", "geolocation", "microphone">>

\* a permissionsPolicy object with the features of f, in the order of f
PermissionsMap(f, shift) ==
  JObj([j \in 1..Len(f) |-> <<FeaturePool[f[j]], TokenList((j + shift) % (MaxTokens + 1))>>])

PermissionsMaps ==
  { PermissionsMap(f, shift) :
      f \in UNION { {g \in [1..n -> 1..Len(FeaturePool)] :
                       \A a, b \in 1..n : a # b => g[a] # g[b]} : n \in 0..MaxFeatures },
      shift \in 0..MaxTokens }

MalformedPermissionsMaps ==
  { JObj(<< <<"camera", bad>> >>) : bad \in {Null, JStr("'self'"), JStr("")} }
  \cup { JObj(<< <<"camera", TokenList(0)>>, <<"geolocation", Null>> >>) }

Flags == {Undefined, JBool(TRUE), JBool(FALSE)}

HstsOptions ==
  { MkObj(<< <<"hsts", MkObj(<< <<"enabled", e>>, <<"maxAge", m>>,
                                <<"includeSubDomains", s>>, <<"preload", p>> >>)>> >>) :
      e \in Flags, m \in {Undefined, JNum(0), JNum(300)}, s \in Flags, p \in Flags }
  \cup { MkObj(<< <<"hsts", MkObj(<< <<"enabled", e>>, <<"maxAge", m>> >>)>> >>) :
           e \in {JBool(TRUE), JBool(FALSE), Null}, m \in {Null, JNum(-1), JStr("1y")} }

CspOptions ==
  { MkObj(<< <<"csp", MkObj(<< <<"directives", d>> >>)>> >>) :
      d \in DirectiveMaps \cup MalformedDirectiveMaps \cup {Null} }
  \cup { MkObj(<< <<"csp", MkObj(<< <<"enabled", e>>, <<"directives", d>> >>)>> >>) :
           e \in {JBool(TRUE), JBool(FALSE), Null},
           d \in {Undefined, JObj(<<>>), JObj(<< <<"defaultSrc", TokenList(1)>> >>),
                  JObj(<< <<"defaultSrc", JStr("'self'")>> >>)} }

SimpleKeys ==
  {"xFrameOptions", "xContentTypeOptions", "xXssProtection", "referrerPolicy", "cacheControl"}

CrossOriginKeys == {"embedderPolicy", "openerPolicy", "resourcePolicy"}

SimpleValues == {Null, JStr(""), JStr("SAMEORIGIN"), JStr("no-referrer")}

SimpleOptions ==
  { MkObj(<< <<k, v>> >>) : k \in SimpleKeys, v \in SimpleValues }
  \cup { MkObj(<< <<"crossOrigin", MkObj(<< <<k, v>> >>)>> >>) :
           k \in CrossOriginKeys, v \in SimpleValues }
  \cup { MkObj(<< <<"xFrameOptions", v>>, <<"referrerPolicy", w>> >>) :
           v \in SimpleValues, w \in SimpleValues }

PermissionsOptions ==
  { MkObj(<< <<"permissionsPolicy", m>> >>) :
      m \in PermissionsMaps \cup MalformedPermissionsMaps \cup {Null, JBool(FALSE)} }

\* several groups overridden at once
MixedOptions ==
  { MkObj(<< <<"hsts", MkObj(<< <<"enabled", JBool(FALSE)>> >>)>>,
             <<"csp", MkObj(<< <<"enabled", e>>, <<"directives", d>> >>)>>,
             <<"xFrameOptions", JStr("")>>,
             <<"permissionsPolicy", m>> >>) :
      e \in {JBool(TRUE), JBool(FALSE)},
      d \in {Undefined, JObj(<< <<"imgSrc", JStr("https:")>> >>)},
      m \in {JBool(FALSE), JObj(<<>>), JObj(<< <<"usb", Null>> >>),
             JObj(<< <<"camera", TokenList(0)>> >>)} }

\* a verbatim option next to a map on which the middleware raises: a
\* directive held as a string raises before X-Frame-Options is reached, a
\* feature held as null raises before the Cross-Origin headers are
RaisingOptions ==
  { MkObj(<< <<"xFrameOptions", v>>,
             <<"csp", MkObj(<< <<"directives", JObj(<< <<"imgSrc", JStr("https:")>> >>)>> >>)>> >>) :
      v \in {Null, JStr("SAMEORIGIN")} }
  \cup { MkObj(<< <<"crossOrigin", MkObj(<< <<"resourcePolicy", JStr("SAMEORIGIN")>> >>)>>,
                  <<"permissionsPolicy", JObj(<< <<"usb", Null>> >>)>> >>) }

SecurityOptions ==
  {Undefined, Null, JObj(<<>>)} \cup HstsOptions \cup CspOptions \cup SimpleOptions
    \cup PermissionsOptions \cup MixedOptions \cup RaisingOptions

RateLimitOptions ==
  {Undefined, Null} \cup
  { MkObj(<< <<"limit", l>>, <<"window", w>>, <<"remaining", r>> >>) :
      l \in {Undefined, JNum(0), JNum(5)}, w \in {Undefined, JNum(0), JNum(30)},
      r \in {Undefined, Null, JNum(0), JNum(3)} }

\* the options given to allSecurityMiddleware
AllSecurityOptions ==
  { Undefined, Null, JObj(<<>>),
    JObj(<< <<"headers", JObj(<< <<"hsts", JObj(<< <<"enabled", JBool(FALSE)>> >>)>> >>)>>,
            <<"rateLimit", JObj(<< <<"limit", JNum(5)>>, <<"remaining", JNum(0)>> >>)>>,
            <<"botDetection", JObj(<< <<"challengeMode", JBool(TRUE)>> >>)>> >>),
    JObj(<< <<"rateLimit", JObj(<< <<"window", JNum(30)>> >>)>> >>),
    JObj(<< <<"headers", JObj(<< <<"cacheControl", JStr("no-store")>> >>)>>,
            <<"botDetection", Null>> >>),
    JObj(<< <<"headers", JObj(<< <<"permissionsPolicy", JObj(<< <<"camera", Null>> >>)>> >>)>> >>) }

\* the options given to the Fastify adapter
FastifyOptions ==
  { Undefined, Null,
    MkObj(<< <<"hsts", MkObj(<< <<"enabled", JBool(FALSE)>> >>)>>, <<"cacheControl", JStr("no-store")>> >>),
    MkObj(<< <<"csp", MkObj(<< <<"directives", JObj(<< <<"defaultSrc", JStr("'self'")>> >>)>> >>)>> >>),
    MkObj(<< <<"csp", MkObj(<< <<"directives", JObj(<< <<"imgSrc", TokenList(1)>> >>)>> >>)>> >>),
    MkObj(<< <<"permissionsPolicy", JObj(<< <<"camera", Null>> >>)>> >>) }

\* the options given to the Hono adapter: the groups its four headers read
HonoOptions ==
  {Undefined, Null, JObj(<<>>)}
  \cup { MkObj(<< <<"hsts", MkObj(<< <<"enabled", e>>, <<"maxAge", m>>, <<"preload", p>> >>)>> >>) :
           e \in {Undefined, JBool(FALSE)}, m \in {Undefined, JNum(0)}, p \in {Undefined, JBool(TRUE)} }
  \cup { MkObj(<< <<k, v>> >>) :
           k \in {"xFrameOptions", "xContentTypeOptions", "referrerPolicy"}, v \in SimpleValues }

BotDetectionOptions == {Undefined, Null, JObj(<< <<"challengeMode", JBool(TRUE)>> >>)}

\* the header maps of an exchange: no header at all is the empty function
NoHeaders == <<>>

RequestHeaders ==
  { NoHeaders,
    "CF-Bot-Score" :> JStr("30"),
    "CF-Bot-Score" :> JStr(""),
    "CF-Verified-Bot" :> JStr("true"),
    ("CF-Bot-Score" :> JStr("1")) @@ ("CF-Verified-Bot" :> JStr("false")) }

ContentTypes ==
  {"text/html", "application/json", "image/png", "font/woff2", "text/css",
   "application/javascript", "IMAGE/PNG", ""}

\* the response headers set by handlers that ran before the middleware
ResponseHeaders ==
  {NoHeaders} \cup { "Content-Type" :> JStr(c) : c \in ContentTypes }
    \cup { ("Content-Type" :> JStr(c)) @@ ("Strict-Transport-Security" :> JStr("max-age=1"))
             @@ ("X-Powered-By" :> JStr("Express")) : c \in {"text/html", "image/png"} }

\* the exchanges served: every request on a plain response, and every
\* response for a plain request
Exchanges ==
  (RequestHeaders \X {NoHeaders}) \cup ({NoHeaders} \X ResponseHeaders)
    \cup { <<"CF-Bot-Score" :> JStr("30"), "Content-Type" :> JStr(c)>> :
             c \in {"text/html", "image/png"} }

-----------------------------------------------------------------------------
(* The application: middleware is attached once at startup, then requests   *)
(* are served and the attached middleware is invoked on each exchange.      *)

MiddlewareNames ==
  {"securityHeadersMiddleware", "rateLimitHeadersMiddleware", "botDetectionHeadersMiddleware"}

\* an instance: the options it was built from, the config its closure holds,
\* and the caller's options object as it is now
Instance(name, options, config) ==
  [name |-> name, options |-> options, config |-> config, caller |-> options]

Init ==
  /\ app = <<>>
  /\ req = NoHeaders
  /\ res = NoHeaders
  /\ resBefore = NoHeaders
  /\ trace = <<>>
  /\ thrown = FALSE
  /\ runs = 0
  /\ last = "none"
  /\ inflight = <<>>
  /\ res0 = NoHeaders
  /\ chain = <<>>

\* app.use(factory(options)): the factory builds its config, or raises
Use(factory, name, options, config) ==
  /\ app = <<>>
  /\ IF factoryThrows(options)
     THEN /\ app' = app
          /\ thrown' = TRUE
     ELSE /\ app' = <<Instance(name, options, config)>>
          /\ thrown' = FALSE
  /\ last' = factory
  /\ UNCHANGED <<req, res, resBefore, trace, runs, inflight, res0, chain>>

UseSecurityHeaders ==
  \E o \in SecurityOptions :
    Use("securityHeaders", "securityHeadersMiddleware", o, securityHeadersConfig(o))

UseRateLimitHeaders ==
  \E o \in RateLimitOptions :
    Use("rateLimitHeaders", "rateLimitHeadersMiddleware", o, rateLimitHeadersConfig(o))

UseBotDetectionHeaders ==
  \E o \in BotDetectionOptions :
    Use("botDetectionHeaders", "botDetectionHeadersMiddleware", o, botDetectionHeadersConfig(o))

\* the array returned by allSecurityMiddleware(options)
allSecurityMiddleware(options) ==
  LET o == DefaultParam(options)
  IN << Instance("securityHeadersMiddleware", Get(o, "headers"),
                 securityHeadersConfig(Get(o, "headers"))),
        Instance("rateLimitHeadersMiddleware", Get(o, "rateLimit"),
                 rateLimitHeadersConfig(Get(o, "rateLimit"))),
        Instance("botDetectionHeadersMiddleware", Get(o, "botDetection"),
                 botDetectionHeadersConfig(Get(o, "botDetection"))) >>

\* `options.headers` on null raises, and so does each of the three factories
\* on null
allSecurityMiddlewareThrows(options) ==
  \/ factoryThrows(options)
  \/ \E k \in {"headers", "rateLimit", "botDetection"} :
       factoryThrows(Get(DefaultParam(options), k))

\* app.use(allSecurityMiddleware(options)): the three are attached together
UseAllSecurityMiddleware ==
  /\ app = <<>>
  /\ \E o \in AllSecurityOptions :
       IF allSecurityMiddlewareThrows(o)
       THEN /\ app' = app
            /\ thrown' = TRUE
       ELSE /\ app' = allSecurityMiddleware(o)
            /\ thrown' = FALSE
  /\ last' = "allSecurityMiddleware"
  /\ UNCHANGED <<req, res, resBefore, trace, runs, inflight, res0, chain>>

UseSecurityHeadersFastify ==
  \E o \in FastifyOptions :
    Use("securityHeadersFastify", "securityHeadersFastifyHook", o, securityHeadersConfig(o))

\* a request arrives; earlier handlers have set some response headers
Request ==
  /\ app # <<>>
  /\ \E x \in Exchanges :
       /\ req' = x[1]
       /\ res' = x[2]
       /\ resBefore' = x[2]
       /\ res0' = x[2]
  /\ chain' = <<>>
  /\ trace' = <<>>
  /\ thrown' = FALSE
  /\ runs' = 0
  /\ last' = "request"
  /\ UNCHANGED <<app, inflight>>

\* Express may invoke a middleware while the exchange is open and no
\* earlier middleware has raised
Invocable(i, name) ==
  /\ i \in DOMAIN app
  /\ app[i].name = name
  /\ last \in {"request"} \cup MiddlewareNames
  /\ ~thrown
  /\ IF Len(app) = 1
     THEN runs < MaxRuns
     ELSE \A j \in DOMAIN chain : chain[j] # name

\* an invocation that also counts the request against the shared
\* configuration: `config.remaining--` in rateLimitHeadersMiddleware
Invoked_CountsDown(name, st) ==
  /\ res' = st.res
  /\ resBefore' = res
  /\ trace' = st.trace
  /\ thrown' = st.thrown
  /\ runs' = runs + 1
  /\ last' = name
  /\ app' = [i \in DOMAIN app |->
               IF /\ app[i].name = name
                  /\ name = "rateLimitHeadersMiddleware"
                  /\ app[i].config.remaining.t = "number"
               THEN [app[i] EXCEPT !.config.remaining = JNum(@.v - 1)]
               ELSE app[i]]
  /\ chain' = Append(chain, name)
  /\ UNCHANGED <<req, inflight, res0>>

\* the effect of one invocation on the exchange
Invoked(name, st) ==
  /\ res' = st.res
  /\ resBefore' = res
  /\ trace' = st.trace
  /\ thrown' = st.thrown
  /\ runs' = runs + 1
  /\ last' = name
  /\ chain' = Append(chain, name)
  /\ UNCHANGED <<app, req, inflight, res0>>

InvokeSecurityHeaders ==
  \E i \in DOMAIN app :
    /\ Invocable(i, "securityHeadersMiddleware")
    /\ Invoked("securityHeadersMiddleware", securityHeadersMiddleware(app[i].config, req, res))

InvokeRateLimitHeaders ==
  \E i \in DOMAIN app :
    /\ Invocable(i, "rateLimitHeadersMiddleware")
    /\ Invoked("rateLimitHeadersMiddleware", rateLimitHeadersMiddleware(app[i].config, req, res))

InvokeBotDetectionHeaders ==
  \E i \in DOMAIN app :
    /\ Invocable(i, "botDetectionHeadersMiddleware")
    /\ Invoked("botDetectionHeadersMiddleware",
               botDetectionHeadersMiddleware(app[i].config, req, res))

\* Fastify calls the onRequest hook once per request
InvokeSecurityHeadersFastify ==
  \E i \in DOMAIN app :
    /\ app[i].name = "securityHeadersFastifyHook"
    /\ last = "request"
    /\ Invoked("securityHeadersFastifyHook", securityHeadersFastifyHook(app[i].config, req, res))

\* the Content-Type a route handler gives its response
HandlerContentTypes == {"image/png"}

\* a handler after which the cache decision is taken again: with an asset
\* Content-Type the three cache headers are dropped
Handler_Revisited ==
  /\ last \in MiddlewareNames
  /\ ~thrown
  /\ \E c \in HandlerContentTypes :
       res' = [n \in (DOMAIN res \cup {"Content-Type"})
                      \ (IF isStaticAsset(c) THEN {"Cache-Control", "Pragma", "Expires"} ELSE {}) |->
                 IF n = "Content-Type" THEN JStr(c) ELSE res[n]]
  /\ last' = "handler"
  /\ chain' = Append(chain, "handler")
  /\ UNCHANGED <<app, req, resBefore, trace, thrown, runs, inflight, res0>>

\* the route handler, which runs after the middleware attached before it,
\* sets the Content-Type of what it sends: res.type(...) overwrites the header
Handler ==
  /\ last \in MiddlewareNames
  /\ ~thrown
  /\ \E c \in HandlerContentTypes : res' = ("Content-Type" :> JStr(c)) @@ res
  /\ last' = "handler"
  /\ chain' = Append(chain, "handler")
  /\ UNCHANGED <<app, req, resBefore, trace, thrown, runs, inflight, res0>>

Next ==
  \/ UseSecurityHeaders
  \/ UseRateLimitHeaders
  \/ UseBotDetectionHeaders
  \/ Request
  \/ InvokeSecurityHeaders
  \/ InvokeRateLimitHeaders
  \/ InvokeBotDetectionHeaders
  \/ Handler
  \/ UseSecurityHeadersFastify
  \/ InvokeSecurityHeadersFastify
  \/ UseAllSecurityMiddleware

Spec == Init /\ [][Next]_vars

-----------------------------------------------------------------------------
(* The Hono adapter. Its handler is an async function: it calls next() and  *)
(* awaits it, so it gives the event loop back with its promise pending and  *)
(* nothing written. While it waits the downstream route handler writes on   *)
(* the same context, and other requests arrive and are served; when next()  *)
(* has settled the rest of the handler runs in one piece.                   *)

\* a call of the handler that has reached `await next()`, on a context whose
\* response headers were r
HonoFlight(r) ==
  LET st == securityHeadersHonoCall(r)
  IN [res0 |-> r, res |-> st.res, trace |-> st.trace, thrown |-> st.thrown,
      promise |-> "pending", routed |-> FALSE]

\* the response headers of a context when the handler is called
HonoResponses == {NoHeaders, "X-Frame-Options" :> JStr("SAMEORIGIN")}

\* the headers a downstream route handler sets with c.header
RouteWrites ==
  { <<"X-Frame-Options", JStr("SAMEORIGIN")>>, <<"Content-Type", JStr("image/png")>> }

\* app.use('*', securityHeadersHono(options)) at startup
UseSecurityHeadersHono ==
  \E o \in HonoOptions :
    Use("securityHeadersHono", "securityHeadersHonoHandler", o, buildConfig(o))

\* a request arrives, while others may be waiting: Hono calls the handler on
\* a context of its own, and the handler returns at `await next()`
InvokeSecurityHeadersHono ==
  /\ app # <<>>
  /\ app[1].name = "securityHeadersHonoHandler"
  /\ Len(inflight) < MaxInFlight
  /\ \E r \in HonoResponses : inflight' = Append(inflight, HonoFlight(r))
  /\ UNCHANGED <<app, req, res, resBefore, trace, thrown, runs, last, res0, chain>>

\* inside next(): the route handler of request k sets a header on its
\* context while the adapter's handler is waiting
RouteHandler ==
  /\ \E k \in DOMAIN inflight :
       /\ inflight[k].promise = "pending"
       /\ ~inflight[k].routed
       /\ \E w \in RouteWrites :
            inflight' = [inflight EXCEPT
                           ![k].res = (w[1] :> w[2]) @@ @,
                           ![k].trace = Append(@, <<"route", w[1], w[2]>>),
                           ![k].routed = TRUE]
  /\ UNCHANGED <<app, req, res, resBefore, trace, thrown, runs, last, res0, chain>>

\* next() of request k has settled: the handler resumes, applies its headers
\* and returns, which resolves its promise
ResumeSecurityHeadersHono ==
  /\ \E k \in DOMAIN inflight :
       /\ inflight[k].promise = "pending"
       /\ LET f  == inflight[k]
              st == securityHeadersHonoResume(
                      app[1].config,
                      [res |-> f.res, trace |-> f.trace, thrown |-> f.thrown])
          IN inflight' = [inflight EXCEPT
                            ![k].res = st.res, ![k].trace = st.trace,
                            ![k].thrown = st.thrown, ![k].promise = "resolved"]
  /\ UNCHANGED <<app, req, res, resBefore, trace, thrown, runs, last, res0, chain>>

NextHono ==
  \/ UseSecurityHeadersHono
  \/ InvokeSecurityHeadersHono
  \/ RouteHandler
  \/ ResumeSecurityHeadersHono

SpecHono == Init /\ [][NextHono]_vars

-----------------------------------------------------------------------------
(* Invocations in progress at once. securityHeadersMiddleware is            *)
(* synchronous, so on one Node.js event loop an invocation runs to its end  *)
(* before the next starts; here its statements are taken one at a time and  *)
(* the statements of several invocations of one instance, each on its own   *)
(* request and response, are interleaved in every order, as they would be   *)
(* with invocations running in parallel.                                    *)

\* the position after the last statement
Done == 16

\* an invocation about to execute its first statement on request headers q
\* and response headers r; contentType is its local `const contentType`
Flight(q, r) ==
  [req |-> q, res0 |-> r, res |-> r, trace |-> <<>>, thrown |-> FALSE,
   pc |-> 1, contentType |-> Undefined]

\* the invocation after a statement that left the run state st: a TypeError
\* ends the invocation
Advance(f, st) ==
  [f EXCEPT !.res = st.res, !.trace = st.trace, !.thrown = st.thrown,
            !.pc = IF st.thrown THEN Done ELSE @ + 1]

\* the statement of securityHeadersMiddleware at position f.pc, executed by
\* invocation f
Statement(config, f) ==
  LET st == [res |-> f.res, trace |-> f.trace, thrown |-> f.thrown]
      contentType == f.contentType
  IN CASE f.pc = 1 -> Advance(f, hstsBlock(config, st))
       [] f.pc = 2 -> Advance(f, cspBlock(config, st))
       [] f.pc = 3 -> Advance(f, setIfTruthy(st, "X-Frame-Options", config.xFrameOptions))
       [] f.pc = 4 -> Advance(f, setIfTruthy(st, "X-Content-Type-Options", config.xContentTypeOptions))
       [] f.pc = 5 -> Advance(f, setIfTruthy(st, "X-XSS-Protection", config.xXssProtection))
       [] f.pc = 6 -> Advance(f, setIfTruthy(st, "Referrer-Policy", config.referrerPolicy))
       [] f.pc = 7 -> Advance(f, permissionsBlock(config, st))
       [] f.pc = 8 -> Advance(f, setIfTruthy(st, "Cross-Origin-Embedder-Policy",
                                             config.crossOrigin.embedderPolicy))
       [] f.pc = 9 -> Advance(f, setIfTruthy(st, "Cross-Origin-Opener-Policy",
                                             config.crossOrigin.openerPolicy))
       [] f.pc = 10 -> Advance(f, setIfTruthy(st, "Cross-Origin-Resource-Policy",
                                              config.crossOrigin.resourcePolicy))
       [] f.pc = 11 -> [f EXCEPT !.contentType = OrElse(getHeader(f.res, "Content-Type"), JStr("")),
                                 !.pc = 12]
       [] f.pc = 12 -> Advance(f, IF isStaticAsset(contentType.v) THEN st
                                  ELSE setHeader(st, "Cache-Control", config.cacheControl))
       [] f.pc = 13 -> Advance(f, IF isStaticAsset(contentType.v) THEN st
                                  ELSE setHeader(st, "Pragma", JStr("no-cache")))
       [] f.pc = 14 -> Advance(f, IF isStaticAsset(contentType.v) THEN st
                                  ELSE setHeader(st, "Expires", JStr("0")))
       [] f.pc = 15 -> Advance(f, callNext(st))

\* where invocation k keeps `contentType`: one variable for all invocations,
\* declared outside the middleware function
Local_Shared(k) == 1

\* where invocation k keeps `contentType`: a const of its own call
Local(k) == k

\* the configurations served concurrently
ConcurrentOptions ==
  { Undefined,
    MkObj(<< <<"hsts", MkObj(<< <<"enabled", JBool(FALSE)>> >>)>>,
             <<"xFrameOptions", JStr("")>> >>),
    MkObj(<< <<"csp", MkObj(<< <<"directives", JObj(<< <<"imgSrc", TokenList(1)>> >>)>> >>)>>,
             <<"cacheControl", JStr("no-store")>> >>),
    MkObj(<< <<"permissionsPolicy", JObj(<< <<"camera", Null>> >>)>> >>) }

\* the responses the concurrent invocations are handed
ConcurrentResponses ==
  { NoHeaders,
    "Content-Type" :> JStr("image/png"),
    ("Content-Type" :> JStr("text/html")) @@ ("Strict-Transport-Security" :> JStr("max-age=1")) }

\* app.use(securityHeaders(options)) at startup
UseConcurrent ==
  \E o \in ConcurrentOptions :
    Use("securityHeaders", "securityHeadersMiddleware", o, securityHeadersConfig(o))

\* a request arrives while others are being served: Express hands the
\* instance a request and a response of its own
Begin ==
  /\ app # <<>>
  /\ Len(inflight) < MaxInFlight
  /\ \E r \in ConcurrentResponses : inflight' = Append(inflight, Flight(NoHeaders, r))
  /\ UNCHANGED <<app, req, res, resBefore, trace, thrown, runs, last, res0, chain>>

\* invocation k executes its next statement
Step ==
  /\ \E k \in DOMAIN inflight :
       /\ inflight[k].pc < Done
       /\ LET f == inflight[k]
              g == Statement(app[1].config,
                             [f EXCEPT !.contentType = inflight[Local(k)].contentType])
              mine == [inflight EXCEPT ![k] = [g EXCEPT !.contentType = f.contentType]]
          IN inflight' = [mine EXCEPT ![Local(k)].contentType = g.contentType]
  /\ UNCHANGED <<app, req, res, resBefore, trace, thrown, runs, last, res0, chain>>

NextConcurrent ==
  \/ UseConcurrent
  \/ Begin
  \/ Step

SpecConcurrent == Init /\ [][NextConcurrent]_vars

-----------------------------------------------------------------------------
(* The caller keeps the options object and changes it after                 *)
(* securityHeaders(options) has returned. `options.csp?.directives ?? ...`  *)
(* and `options.permissionsPolicy ?? ...` put the caller's own map into the *)
(* config, not a copy; numbers, strings and booleans are copied.            *)

\* o[k] = v on an object: the property keeps its place, a new one goes last
Put(o, k, v) ==
  IF \E i \in DOMAIN o.v : o.v[i][1] = k
  THEN JObj([i \in DOMAIN o.v |-> IF o.v[i][1] = k THEN <<k, v>> ELSE o.v[i]])
  ELSE JObj(Append(o.v, <<k, v>>))

\* the options objects the caller keeps
MutableOptions ==
  { JObj(<< <<"csp", JObj(<< <<"directives", JObj(<< <<"defaultSrc", TokenList(1)>> >>)>> >>)>> >>),
    JObj(<< <<"permissionsPolicy", JObj(<< <<"camera", TokenList(0)>> >>)>> >>),
    JObj(<< <<"hsts", JObj(<< <<"maxAge", JNum(300)>> >>)>>,
            <<"csp", JObj(<< <<"enabled", JBool(TRUE)>> >>)>> >>),
    JObj(<< <<"xFrameOptions", JStr("SAMEORIGIN")>>,
            <<"csp", JObj(<< <<"directives", JObj(<< <<"imgSrc", TokenList(1)>> >>)>> >>)>>,
            <<"permissionsPolicy", JObj(<<>>)>> >>) }

\* the assignments the caller makes: `path` names the property assigned
Mutations ==
  { [path |-> <<"csp", "directives", "scriptSrc">>, value |-> TokenList(1)],
    [path |-> <<"csp", "directives", "defaultSrc">>, value |-> TokenList(2)],
    [path |-> <<"csp", "directives">>, value |-> JObj(<< <<"fontSrc", TokenList(1)>> >>)],
    [path |-> <<"permissionsPolicy", "camera">>, value |-> TokenList(1)],
    [path |-> <<"permissionsPolicy">>, value |-> JObj(<< <<"usb", TokenList(0)>> >>)],
    [path |-> <<"hsts", "maxAge">>, value |-> JNum(0)],
    [path |-> <<"xFrameOptions">>, value |-> JStr("")] }

\* the assignment is possible: every object on the path but the last exists
Assignable(o, path) ==
  /\ o.t = "object"
  /\ Len(path) > 1 => Get(o, path[1]).t = "object"
  /\ Len(path) > 2 => Get(Get(o, path[1]), path[2]).t = "object"

\* the caller's object after the assignment
Assign(o, path, value) ==
  IF Len(path) = 1 THEN Put(o, path[1], value)
  ELSE IF Len(path) = 2 THEN Put(o, path[1], Put(Get(o, path[1]), path[2], value))
  ELSE Put(o, path[1],
           Put(Get(o, path[1]), path[2],
               Put(Get(Get(o, path[1]), path[2]), path[3], value)))

\* the config after the assignment: config.csp.directives and
\* config.permissionsPolicy are the caller's maps when the caller supplied
\* them, so an assignment inside such a map is an assignment inside the config
Aliased(options, config, path, value) ==
  IF /\ Len(path) = 3
     /\ path[1] = "csp" /\ path[2] = "directives"
     /\ ~Nullish(OptGet(Get(options, "csp"), "directives"))
  THEN [config EXCEPT !.csp.directives = Put(@, path[3], value)]
  ELSE IF /\ Len(path) = 2
          /\ path[1] = "permissionsPolicy"
          /\ ~Nullish(Get(options, "permissionsPolicy"))
  THEN [config EXCEPT !.permissionsPolicy = Put(@, path[2], value)]
  ELSE config

\* app.use(securityHeaders(options)) with an object the caller keeps
UseMutable ==
  \E o \in MutableOptions :
    Use("securityHeaders", "securityHeadersMiddleware", o, securityHeadersConfig(o))

\* between two requests the caller assigns to a property of the options
\* object, once
Mutate ==
  /\ app # <<>>
  /\ last \in {"securityHeaders"} \cup MiddlewareNames
  /\ app[1].caller = app[1].options
  /\ \E m \in Mutations :
       /\ Assignable(app[1].caller, m.path)
       /\ app' = <<[app[1] EXCEPT !.caller = Assign(@, m.path, m.value),
                                  !.config = Aliased(app[1].options, @, m.path, m.value)]>>
  /\ last' = "mutate"
  /\ thrown' = FALSE
  /\ UNCHANGED <<req, res, resBefore, trace, runs, inflight, res0, chain>>

NextMutation ==
  \/ UseMutable
  \/ Mutate
  \/ Request
  \/ InvokeSecurityHeaders

SpecMutation == Init /\ [][NextMutation]_vars

-----------------------------------------------------------------------------
(* What the properties speak of                                             *)

\* the last call was an invocation of securityHeadersMiddleware
SecurityRan == last = "securityHeadersMiddleware"

\* the securityHeaders instance of the application
Sec == app[CHOOSE i \in DOMAIN app : app[i].name = "securityHeadersMiddleware"]

\* the positions of the last invocation's writes of a header
WritesOf(name) ==
  {i \in DOMAIN trace : trace[i][1] = "setHeader" /\ trace[i][2] = name}

Wrote(name) == WritesOf(name) # {}

\* the last invocation wrote the header once, with this value, and the
\* response carries it
WroteExactly(name, value) ==
  /\ Cardinality(WritesOf(name)) = 1
  /\ \A i \in WritesOf(name) : trace[i][3] = value
  /\ name \in DOMAIN res
  /\ res[name] = value

\* the last invocation left the header as it was
Untouched(name) ==
  /\ ~Wrote(name)
  /\ name \in DOMAIN res <=> name \in DOMAIN resBefore
  /\ name \in DOMAIN res => res[name] = resBefore[name]

\* the last invocation ran to its end: it raised nothing
Completed == ~thrown

\* the caller's options.group.field, undefined when absent
Option(group, field) == OptGet(OptGet(DefaultParam(Sec.options), group), field)

-----------------------------------------------------------------------------
\* C1: when the caller's options have hsts.enabled = false, an invocation of
\* the middleware never writes Strict-Transport-Security, whatever maxAge,
\* includeSubDomains and preload are; a header of that name set earlier stays
\* as it was.
C1_HstsDisabledNeverWritten ==
  (SecurityRan /\ Option("hsts", "enabled") = JBool(FALSE))
    => Untouched("Strict-Transport-Security")

\* hsts disabled with preload requested and a max-age supplied; the
\* invocation ran and wrote other headers
C1_Witness ==
  /\ SecurityRan
  /\ Option("hsts", "enabled") = JBool(FALSE)
  /\ Option("hsts", "preload") = JBool(TRUE)
  /\ Option("hsts", "maxAge") = JNum(300)
  /\ Wrote("X-Frame-Options")

\* C2: when hsts.enabled is true, the value written is max-age=<n>, then
\* "; includeSubDomains" iff includeSubDomains, then "; preload" iff preload,
\* and nothing else.
C2_HstsValueExact ==
  (/\ SecurityRan
   /\ Sec.config.hsts.enabled = JBool(TRUE)
   /\ Sec.config.hsts.maxAge.t = "number"
   /\ Sec.config.hsts.includeSubDomains.t = "boolean"
   /\ Sec.config.hsts.preload.t = "boolean")
    => LET n   == Sec.config.hsts.maxAge.v
           sub == Sec.config.hsts.includeSubDomains.v
           pre == Sec.config.hsts.preload.v
           expected ==
             CASE sub /\ pre   -> "max-age=" \o ToString(n) \o "; includeSubDomains; preload"
               [] sub /\ ~pre  -> "max-age=" \o ToString(n) \o "; includeSubDomains"
               [] ~sub /\ pre  -> "max-age=" \o ToString(n) \o "; preload"
               [] OTHER        -> "max-age=" \o ToString(n)
       IN WroteExactly("Strict-Transport-Security", JStr(expected))

\* both suffixes present, after a max-age of 0
C2_Witness ==
  /\ SecurityRan
  /\ Option("hsts", "includeSubDomains") = JBool(TRUE)
  /\ Option("hsts", "preload") = JBool(TRUE)
  /\ WroteExactly("Strict-Transport-Security", JStr("max-age=0; includeSubDomains; preload"))

-----------------------------------------------------------------------------
(* The header syntax the properties are stated in                           *)

UpperCase == "ABCDEFGHIJKLMNOPQRSTUVWXYZ"
LowerCase == "abcdefghijklmnopqrstuvwxyz"
UpperCaseLetters == {SubSeq(UpperCase, j, j) : j \in 1..Len(UpperCase)}

\* the kebab-case name of a camelCase key: defaultSrc is default-src
RECURSIVE KebabCase(_)
KebabCase(key) ==
  IF key = "" THEN ""
  ELSE LET c    == SubSeq(key, 1, 1)
           rest == KebabCase(SubSeq(key, 2, Len(key)))
       IN IF c \in UpperCaseLetters
          THEN LET j == CHOOSE j \in 1..Len(UpperCase) : SubSeq(UpperCase, j, j) = c
               IN "-" \o SubSeq(LowerCase, j, j) \o rest
          ELSE c \o rest

\* the parts of a string between the occurrences of a separator
RECURSIVE Split(_, _)
Split(str, sep) ==
  IF \E i \in 1..(Len(str) - Len(sep) + 1) : SubSeq(str, i, i + Len(sep) - 1) = sep
  THEN LET i == CHOOSE i \in 1..(Len(str) - Len(sep) + 1) :
                  /\ SubSeq(str, i, i + Len(sep) - 1) = sep
                  /\ \A j \in 1..(i - 1) : SubSeq(str, j, j + Len(sep) - 1) # sep
       IN <<SubSeq(str, 1, i - 1)>> \o Split(SubSeq(str, i + Len(sep), Len(str)), sep)
  ELSE <<str>>

\* the clauses of a Content-Security-Policy value
Clauses(value) == IF value = "" THEN <<>> ELSE Split(value, "; ")

\* the order in which directives are to appear
FixedOrder ==
  <<"default-src", "script-src", "style-src", "img-src", "font-src", "connect-src",
    "frame-src", "object-src", "base-uri", "form-action", "frame-ancestors",
    "upgrade-insecure-requests">>

\* every list directive of the map holds a list, the flag a boolean
WellTypedDirectives(d) ==
  /\ d.t = "object"
  /\ \A i \in DOMAIN d.v :
       IF d.v[i][1] = "upgradeInsecureRequests"
       THEN d.v[i][2].t = "boolean"
       ELSE d.v[i][2].t = "array"

\* the clause of an entry of a directives map, if it has one
ClauseOf(entry) ==
  IF entry[1] = "upgradeInsecureRequests"
  THEN (IF entry[2] = JBool(TRUE) THEN <<KebabCase(entry[1])>> ELSE <<>>)
  ELSE <<KebabCase(entry[1]) \o " " \o Join(entry[2].v, " ")>>

\* the directive name an entry of a directives map stands for
NameOf(entry) == KebabCase(entry[1])

\* the clauses of the directives of FixedOrder present in the map, from the
\* i-th name on; names[j] is the directive name of the j-th entry of the map
RECURSIVE ClausesFrom(_, _, _)
ClausesFrom(d, names, i) ==
  IF i > Len(FixedOrder) THEN <<>>
  ELSE LET at == {j \in DOMAIN names : names[j] = FixedOrder[i]}
       IN (IF at = {} THEN <<>> ELSE ClauseOf(d.v[CHOOSE j \in at : TRUE]))
            \o ClausesFrom(d, names, i + 1)

ClausesInFixedOrder(d) ==
  LET names == [j \in DOMAIN d.v |-> NameOf(d.v[j])]
  IN ClausesFrom(d, names, 1)

\* the caller's csp.directives map, the default map when none is supplied
Directives == Sec.config.csp.directives

-----------------------------------------------------------------------------
\* C3: when csp.enabled is true, the Content-Security-Policy value is the
\* clauses of the directives present in the map, in the fixed order whatever
\* the key order of the map, joined by "; " with no leading or trailing
\* separator and no other directive; a map holding only defaultSrc ['self']
\* yields exactly default-src 'self'.
C3_CspFixedOrder ==
  (SecurityRan /\ Sec.config.csp.enabled = JBool(TRUE) /\ WellTypedDirectives(Directives))
    => /\ WroteExactly("Content-Security-Policy",
                       JStr(Join(ClausesInFixedOrder(Directives), "; ")))
       /\ Directives = JObj(<< <<"defaultSrc", JArr(<<"'self'">>)>> >>)
            => res["Content-Security-Policy"] = JStr("default-src 'self'")

\* a supplied map whose keys are in the reverse of the fixed order
C3_Witness ==
  /\ SecurityRan
  /\ Nullish(Option("csp", "enabled"))
  /\ Option("csp", "directives").t = "object"
  /\ Keys(Option("csp", "directives").v) = <<"frameAncestors", "scriptSrc">>
  /\ Len(Clauses(res["Content-Security-Policy"].v)) = 2
  /\ Clauses(res["Content-Security-Policy"].v)[2] = "frame-ancestors 'self'"

\* C4: no empty directive is emitted: every clause of the emitted value other
\* than the bare upgrade-insecure-requests is a directive name followed by at
\* least one source token.
C4_NoEmptyDirective ==
  (SecurityRan /\ WellTypedDirectives(Directives) /\ Wrote("Content-Security-Policy"))
    => \A i \in DOMAIN Clauses(res["Content-Security-Policy"].v) :
         LET clause == Clauses(res["Content-Security-Policy"].v)[i]
             parts  == Split(clause, " ")
         IN \/ clause = "upgrade-insecure-requests"
            \/ /\ Len(parts) >= 2
               /\ \A j \in DOMAIN parts : parts[j] # ""

\* C5: every key of the supplied map that holds a token list, the keys other
\* than the eleven default list directives included, is rendered in the
\* emitted value as <kebab-case-name> <space-joined tokens>.
C5_EveryDirectiveRendered ==
  (SecurityRan /\ WellTypedDirectives(Directives) /\ Wrote("Content-Security-Policy"))
    => \A i \in DOMAIN Directives.v :
         Directives.v[i][2].t = "array"
           => \E j \in DOMAIN Clauses(res["Content-Security-Policy"].v) :
                Clauses(res["Content-Security-Policy"].v)[j]
                  = KebabCase(Directives.v[i][1]) \o " " \o Join(Directives.v[i][2].v, " ")

-----------------------------------------------------------------------------
\* the caller's top-level option of a key, undefined when absent
TopOption(key) == Get(DefaultParam(Sec.options), key)

\* the headers written verbatim, each with the caller's option for it and
\* the value documented as its default
VerbatimHeaders ==
  { [header |-> "X-Frame-Options", option |-> TopOption("xFrameOptions"),
     default |-> "DENY"],
    [header |-> "X-Content-Type-Options", option |-> TopOption("xContentTypeOptions"),
     default |-> "nosniff"],
    [header |-> "X-XSS-Protection", option |-> TopOption("xXssProtection"),
     default |-> "1; mode=block"],
    [header |-> "Referrer-Policy", option |-> TopOption("referrerPolicy"),
     default |-> "strict-origin-when-cross-origin"],
    [header |-> "Cross-Origin-Embedder-Policy", option |-> Option("crossOrigin", "embedderPolicy"),
     default |-> "require-corp"],
    [header |-> "Cross-Origin-Opener-Policy", option |-> Option("crossOrigin", "openerPolicy"),
     default |-> "same-origin"],
    [header |-> "Cross-Origin-Resource-Policy", option |-> Option("crossOrigin", "resourcePolicy"),
     default |-> "same-origin"] }

NonEmptyString(x) == x.t = "string" /\ x.v # ""

WellTypedPermissions(p) ==
  /\ p.t = "object"
  /\ \A i \in DOMAIN p.v : p.v[i][2].t = "array"

\* C7: for a permissionsPolicy mapping with at least one feature the
\* Permissions-Policy value is the entries <feature>=(<space-joined origins>)
\* in the key order of the mapping, separated by ", ", an empty list being ();
\* { camera: [], geolocation: ['self'] } yields camera=(), geolocation=('self').
\* The header is written by every invocation that runs to its end.
C7_PermissionsPolicyValue ==
  (/\ SecurityRan
   /\ WellTypedPermissions(Sec.config.permissionsPolicy)
   /\ Len(Sec.config.permissionsPolicy.v) >= 1)
    => LET p == Sec.config.permissionsPolicy.v
       IN /\ Completed => Cardinality(WritesOf("Permissions-Policy")) = 1
          /\ Wrote("Permissions-Policy")
               => /\ Cardinality(WritesOf("Permissions-Policy")) = 1
                  /\ \A w \in WritesOf("Permissions-Policy") : trace[w][3] = res["Permissions-Policy"]
                  /\ res["Permissions-Policy"].t = "string"
                  /\ LET items == Split(res["Permissions-Policy"].v, ", ")
                     IN /\ Len(items) = Len(p)
                        /\ \A i \in DOMAIN p :
                             items[i] = p[i][1] \o "=(" \o Join(p[i][2].v, " ") \o ")"
          /\ (Completed /\ p = << <<"camera", JArr(<<>>)>>, <<"geolocation", JArr(<<"'self'">>)>> >>)
               => res["Permissions-Policy"] = JStr("camera=(), geolocation=('self')")

\* the mapping { camera: [], geolocation: ['self'] } was supplied
C7_Witness ==
  /\ SecurityRan
  /\ TopOption("permissionsPolicy")
       = JObj(<< <<"camera", JArr(<<>>)>>, <<"geolocation", JArr(<<"'self'">>)>> >>)
  /\ WroteExactly("Permissions-Policy", JStr("camera=(), geolocation=('self')"))

\* C8: when the caller supplies permissionsPolicy as an empty mapping, no
\* Permissions-Policy header is written at all.
C8_EmptyPolicyNotEmitted ==
  (SecurityRan /\ TopOption("permissionsPolicy") = JObj(<<>>))
    => ~Wrote("Permissions-Policy")

\* the Content-Type of the response when the last invocation began
ContentTypeBefore ==
  IF "Content-Type" \in DOMAIN resBefore THEN resBefore["Content-Type"].v ELSE ""

\* the string has an occurrence of the word
Contains(str, word) == Len(Split(str, word)) > 1

\* C9: if the Content-Type of the response when the middleware runs contains
\* image, font, css or javascript, none of Cache-Control, Pragma, Expires is
\* written; if it contains none of them or is absent, an invocation that runs
\* to its end writes Cache-Control = the configured cacheControl,
\* Pragma = no-cache and Expires = 0.
C9_CacheControlSuppression ==
  SecurityRan
    => IF \E word \in {"image", "font", "css", "javascript"} : Contains(ContentTypeBefore, word)
       THEN /\ Untouched("Cache-Control")
            /\ Untouched("Pragma")
            /\ Untouched("Expires")
       ELSE Completed
              => /\ WroteExactly("Cache-Control",
                                 Coalesce(TopOption("cacheControl"),
                                          JStr("no-store, no-cache, must-revalidate, proxy-revalidate")))
                 /\ WroteExactly("Pragma", JStr("no-cache"))
                 /\ WroteExactly("Expires", JStr("0"))

\* a font response: the earlier headers are written, the cache headers are not
C9_Witness ==
  /\ SecurityRan
  /\ ContentTypeBefore = "font/woff2"
  /\ Wrote("Cross-Origin-Resource-Policy")
  /\ "Cache-Control" \notin DOMAIN res
  /\ "Pragma" \notin DOMAIN res
  /\ "Expires" \notin DOMAIN res

\* C10: every invocation of the three middlewares calls next exactly once,
\* for every configuration and every request and response, after all of its
\* header writes.
C10_NextCalledOnceLast ==
  last \in MiddlewareNames
    => /\ Cardinality({i \in DOMAIN trace : trace[i][1] = "next"}) = 1
       /\ trace[Len(trace)][1] = "next"

-----------------------------------------------------------------------------
\* an instance of securityHeaders is attached to the application
HasSec == \E i \in DOMAIN app : app[i].name = "securityHeadersMiddleware"

\* the sub-fields of the three nested groups, each with its documented default
GroupFields ==
  { <<"hsts", "enabled", JBool(TRUE)>>,
    <<"hsts", "maxAge", JNum(31536000)>>,
    <<"hsts", "includeSubDomains", JBool(TRUE)>>,
    <<"hsts", "preload", JBool(FALSE)>>,
    <<"csp", "enabled", JBool(TRUE)>>,
    <<"csp", "directives", DefaultDirectives>>,
    <<"crossOrigin", "embedderPolicy", JStr("require-corp")>>,
    <<"crossOrigin", "openerPolicy", JStr("same-origin")>>,
    <<"crossOrigin", "resourcePolicy", JStr("same-origin")>> }

\* C11: each sub-field of hsts, csp and crossOrigin is resolved on its own:
\* the configuration holds the caller's value of a field the caller supplied
\* and the default of a field the caller omitted, whatever the other fields of
\* the same group are.
C11_FieldByField ==
  HasSec =>
    \A f \in GroupFields :
      /\ Option(f[1], f[2]) = Undefined => Sec.config[f[1]][f[2]] = f[3]
      /\ ~Nullish(Option(f[1], f[2])) => Sec.config[f[1]][f[2]] = Option(f[1], f[2])

\* hsts: { preload: true } alone: the three omitted fields keep their
\* defaults and the header written shows all four
C11_Witness ==
  /\ SecurityRan
  /\ Sec.options = JObj(<< <<"hsts", JObj(<< <<"preload", JBool(TRUE)>> >>)>> >>)
  /\ Sec.config.hsts = [enabled |-> JBool(TRUE), maxAge |-> JNum(31536000),
                        includeSubDomains |-> JBool(TRUE), preload |-> JBool(TRUE)]
  /\ WroteExactly("Strict-Transport-Security",
                  JStr("max-age=31536000; includeSubDomains; preload"))

-----------------------------------------------------------------------------
\* the keys of a default map that a supplied map does not have
MissingFrom(default, supplied) ==
  {default.v[i][1] : i \in DOMAIN default.v}
    \ {supplied.v[j][1] : j \in DOMAIN supplied.v}

\* the directive names of a Content-Security-Policy value
DirectiveNamesIn(value) ==
  {Split(Clauses(value)[i], " ")[1] : i \in DOMAIN Clauses(value)}

\* the feature names of a Permissions-Policy value
FeatureNamesIn(value) ==
  {Split(Split(value, ", ")[i], "=")[1] : i \in DOMAIN Split(value, ", ")}

\* C12: a csp.directives map or a permissionsPolicy map supplied by the caller
\* is the configured map, whole: no default directive (upgrade-insecure-requests
\* included) and no default feature that the supplied map lacks appears in the
\* value the middleware writes.
C12_MapsReplaced ==
  /\ (HasSec /\ Option("csp", "directives").t = "object")
       => /\ Sec.config.csp.directives = Option("csp", "directives")
          /\ SecurityRan =>
               \A w \in WritesOf("Content-Security-Policy") :
                 \A k \in MissingFrom(DefaultDirectives, Option("csp", "directives")) :
                   KebabCase(k) \notin DirectiveNamesIn(trace[w][3].v)
  /\ (HasSec /\ TopOption("permissionsPolicy").t = "object")
       => /\ Sec.config.permissionsPolicy = TopOption("permissionsPolicy")
          /\ SecurityRan =>
               \A w \in WritesOf("Permissions-Policy") :
                 \A k \in MissingFrom(DefaultPermissionsPolicy, TopOption("permissionsPolicy")) :
                   k \notin FeatureNamesIn(trace[w][3].v)

\* a map with the one directive imgSrc was supplied: the header written has
\* that clause alone, while the Permissions-Policy, not overridden, still has
\* the eight default features
C12_Witness ==
  /\ SecurityRan
  /\ Option("csp", "directives").t = "object"
  /\ Keys(Option("csp", "directives").v) = <<"imgSrc">>
  /\ Wrote("Content-Security-Policy")
  /\ DirectiveNamesIn(res["Content-Security-Policy"].v) = {"img-src"}
  /\ Cardinality(FeatureNamesIn(res["Permissions-Policy"].v)) = 8

-----------------------------------------------------------------------------
StartsWith(str, prefix) ==
  Len(str) >= Len(prefix) /\ SubSeq(str, 1, Len(prefix)) = prefix

EndsWith(str, suffix) ==
  Len(str) >= Len(suffix) /\ SubSeq(str, Len(str) - Len(suffix) + 1, Len(str)) = suffix

\* C13: securityHeaders() built with no options, invoked on a response that
\* has no Content-Type, writes Strict-Transport-Security
\* "max-age=31536000; includeSubDomains", a Content-Security-Policy that starts
\* with "default-src 'self'; script-src 'self' 'unsafe-inline'" and ends with
\* "upgrade-insecure-requests", X-Frame-Options DENY, X-Content-Type-Options
\* nosniff and Cache-Control
\* "no-store, no-cache, must-revalidate, proxy-revalidate".
C13_DefaultHeaders ==
  (/\ SecurityRan
   /\ DefaultParam(Sec.options) = JObj(<<>>)
   /\ "Content-Type" \notin DOMAIN resBefore)
    => /\ WroteExactly("Strict-Transport-Security", JStr("max-age=31536000; includeSubDomains"))
       /\ Cardinality(WritesOf("Content-Security-Policy")) = 1
       /\ "Content-Security-Policy" \in DOMAIN res
       /\ res["Content-Security-Policy"].t = "string"
       /\ StartsWith(res["Content-Security-Policy"].v,
                     "default-src 'self'; script-src 'self' 'unsafe-inline'")
       /\ EndsWith(res["Content-Security-Policy"].v, "upgrade-insecure-requests")
       /\ WroteExactly("X-Frame-Options", JStr("DENY"))
       /\ WroteExactly("X-Content-Type-Options", JStr("nosniff"))
       /\ WroteExactly("Cache-Control",
                       JStr("no-store, no-cache, must-revalidate, proxy-revalidate"))

\* securityHeaders() was invoked on a response without any header and ran to
\* its end
C13_Witness ==
  /\ SecurityRan
  /\ Sec.options = Undefined
  /\ resBefore = NoHeaders
  /\ Completed
  /\ Len(Clauses(res["Content-Security-Policy"].v)) = 12
  /\ trace[Len(trace)] = <<"next">>

-----------------------------------------------------------------------------
\* the application has the securityHeaders instance alone, so that every
\* invocation of the exchange was an invocation of it
OnlySec == \A i \in DOMAIN app : app[i].name = "securityHeadersMiddleware"

\* C14: invoking the same securityHeaders middleware a second time on the
\* same response leaves the header set the first invocation left, for every
\* configuration and every initial header state of the response; an
\* invocation that raised would leave the same headers if run again.
C14_Idempotent ==
  /\ (SecurityRan /\ OnlySec /\ runs >= 2) => res = resBefore
  /\ (SecurityRan /\ thrown)
       => securityHeadersMiddleware(Sec.config, req, res).res = res

\* the second invocation on a response that already carried a
\* Strict-Transport-Security header and a Content-Type: it wrote its headers
\* again and the response is as the first invocation left it
C14_Witness ==
  /\ SecurityRan
  /\ OnlySec
  /\ runs = 2
  /\ Completed
  /\ Wrote("Strict-Transport-Security")
  /\ Wrote("Content-Security-Policy")
  /\ Wrote("Cache-Control")
  /\ "X-Powered-By" \in DOMAIN res
  /\ res = resBefore

-----------------------------------------------------------------------------
\* C15: whatever the configuration, malformed or partial (a directive or a
\* permissions entry that is a string or null, options that are null),
\* constructing a middleware and invoking it raises nothing, and every
\* invocation still calls next.
C15_NeverRaises ==
  /\ ~thrown
  /\ last \in MiddlewareNames => \E i \in DOMAIN trace : trace[i] = <<"next">>

-----------------------------------------------------------------------------
\* the rateLimitHeaders instance of the application
Rate == app[CHOOSE i \in DOMAIN app : app[i].name = "rateLimitHeadersMiddleware"]

RateLimitRan == last = "rateLimitHeadersMiddleware"

\* C16: no invocation of securityHeadersMiddleware or of
\* rateLimitHeadersMiddleware changes the configuration resolved at
\* construction: after any number of requests and invocations the instance
\* holds the configuration its factory built from the options.
C16_ConfigNeverMutated ==
  \A i \in DOMAIN app :
    /\ app[i].name = "securityHeadersMiddleware"
         => app[i].config = securityHeadersConfig(app[i].options)
    /\ app[i].name = "rateLimitHeadersMiddleware"
         => app[i].config = rateLimitHeadersConfig(app[i].options)

\* the rate-limit annotator built with remaining: 3 has run twice on the
\* exchange and its configuration still says 3
C16_Witness ==
  /\ RateLimitRan
  /\ runs = 2
  /\ Get(Rate.options, "remaining") = JNum(3)
  /\ Rate.config.remaining = JNum(3)
  /\ chain = <<"rateLimitHeadersMiddleware", "rateLimitHeadersMiddleware">>
  /\ res["X-RateLimit-Remaining"] = JNum(3)
  /\ resBefore["X-RateLimit-Remaining"] = JNum(3)

-----------------------------------------------------------------------------
\* the caller's options.<key> of rateLimitHeaders, undefined when absent
RateOption(key) == Get(DefaultParam(Rate.options), key)

\* C19: every invocation of the rate-limit annotator writes X-RateLimit-Limit
\* and X-RateLimit-Window with the configured values (100 and 60 when none is
\* supplied) and CF-Cache-Status: DYNAMIC; it writes X-RateLimit-Remaining,
\* with the supplied value, exactly when a remaining value was supplied, where
\* 0 counts as supplied and undefined and null do not.
C19_RateLimitHeaders ==
  RateLimitRan
    => /\ WroteExactly("X-RateLimit-Limit",
                       IF Nullish(RateOption("limit")) THEN JNum(100) ELSE RateOption("limit"))
       /\ WroteExactly("X-RateLimit-Window",
                       IF Nullish(RateOption("window")) THEN JNum(60) ELSE RateOption("window"))
       /\ WroteExactly("CF-Cache-Status", JStr("DYNAMIC"))
       /\ Wrote("X-RateLimit-Remaining") <=> RateOption("remaining") \notin {Undefined, Null}
       /\ Wrote("X-RateLimit-Remaining")
            => WroteExactly("X-RateLimit-Remaining", RateOption("remaining"))
       /\ RateOption("remaining") = JNum(0) => WroteExactly("X-RateLimit-Remaining", JNum(0))

\* remaining: 0 was supplied and limit and window were not: the invocation
\* wrote 100, 60 and a remaining of 0
C19_Witness ==
  /\ RateLimitRan
  /\ Rate.options = JObj(<< <<"remaining", JNum(0)>> >>)
  /\ res["X-RateLimit-Limit"] = JNum(100)
  /\ res["X-RateLimit-Window"] = JNum(60)
  /\ res["X-RateLimit-Remaining"] = JNum(0)
  /\ res["CF-Cache-Status"] = JStr("DYNAMIC")

\* the names the rate-limit annotator writes from its configuration
RateLimitNames == {"X-RateLimit-Limit", "X-RateLimit-Window", "X-RateLimit-Remaining"}

\* the configured value behind each of them
RateLimitField(name) ==
  CASE name = "X-RateLimit-Limit" -> Rate.config.limit
    [] name = "X-RateLimit-Window" -> Rate.config.window
    [] name = "X-RateLimit-Remaining" -> Rate.config.remaining

\* C20: the rate-limit annotator counts nothing: whatever requests and
\* invocations came before, each value it writes is the constant captured at
\* construction, so an invocation writes what the one before it wrote and
\* X-RateLimit-Remaining never goes down.
C20_NoCounting ==
  RateLimitRan
    => /\ \A i \in DOMAIN trace :
            (trace[i][1] = "setHeader" /\ trace[i][2] \in RateLimitNames)
              => trace[i][3] = RateLimitField(trace[i][2])
       /\ (Len(chain) >= 2 /\ chain[Len(chain) - 1] = "rateLimitHeadersMiddleware")
            => \A n \in RateLimitNames :
                 /\ n \in DOMAIN res <=> n \in DOMAIN resBefore
                 /\ n \in DOMAIN res => res[n] = resBefore[n]

\* the second invocation of an annotator built with limit 5, window 30 and
\* remaining 3 wrote the same three values as the first
C20_Witness ==
  /\ RateLimitRan
  /\ runs = 2
  /\ Rate.options = JObj(<< <<"limit", JNum(5)>>, <<"window", JNum(30)>>, <<"remaining", JNum(3)>> >>)
  /\ WroteExactly("X-RateLimit-Limit", JNum(5))
  /\ WroteExactly("X-RateLimit-Window", JNum(30))
  /\ WroteExactly("X-RateLimit-Remaining", JNum(3))
  /\ chain = <<"rateLimitHeadersMiddleware", "rateLimitHeadersMiddleware">>
  /\ resBefore["X-RateLimit-Remaining"] = JNum(3)

-----------------------------------------------------------------------------
\* the thirteen header names securityHeadersMiddleware may write
SecurityHeaderNames ==
  {"Strict-Transport-Security", "Content-Security-Policy", "X-Frame-Options",
   "X-Content-Type-Options", "X-XSS-Protection", "Referrer-Policy",
   "Permissions-Policy", "Cross-Origin-Embedder-Policy", "Cross-Origin-Opener-Policy",
   "Cross-Origin-Resource-Policy", "Cache-Control", "Pragma", "Expires"}

\* the step is an invocation of securityHeadersMiddleware
SecurityStep == last' = "securityHeadersMiddleware" /\ runs' = runs + 1

\* C18: an invocation of securityHeadersMiddleware changes response headers
\* only: every name it writes is one of the thirteen, it removes no header,
\* every header it did not write (the earlier header of a disabled policy
\* included) is as it was, and the request is unchanged.
C18_OnlyResponseHeaders ==
  [][SecurityStep =>
       LET written == {trace'[i][2] : i \in {j \in DOMAIN trace' : trace'[j][1] = "setHeader"}}
       IN /\ \A i \in DOMAIN trace' : trace'[i][1] \in {"setHeader", "next"}
          /\ written \subseteq SecurityHeaderNames
          /\ DOMAIN res' = DOMAIN res \cup written
          /\ \A n \in DOMAIN res : n \notin written => res'[n] = res[n]
          /\ req' = req
          /\ app' = app]_vars

\* hsts disabled, on a response that carried Strict-Transport-Security and
\* X-Powered-By: both are as they were, and other headers were written
C18_Witness ==
  /\ SecurityRan
  /\ Option("hsts", "enabled") = JBool(FALSE)
  /\ "X-Powered-By" \in DOMAIN resBefore
  /\ res["X-Powered-By"] = resBefore["X-Powered-By"]
  /\ res["Strict-Transport-Security"] = JStr("max-age=1")
  /\ res["Content-Type"] = resBefore["Content-Type"]
  /\ Wrote("X-Content-Type-Options")
  /\ DOMAIN res # DOMAIN resBefore

-----------------------------------------------------------------------------
\* C17: however the statements of several invocations of one securityHeaders
\* instance, each on its own request and response, are interleaved, each
\* invocation ends with exactly the headers (and the outcome) of a run of the
\* middleware on its response with no other invocation in progress.
C17_InterleavingHarmless ==
  \A k \in DOMAIN inflight :
    inflight[k].pc = Done
      => LET alone == securityHeadersMiddleware(app[1].config, inflight[k].req, inflight[k].res0)
         IN /\ inflight[k].res = alone.res
            /\ inflight[k].thrown = alone.thrown
            /\ inflight[k].trace = alone.trace

\* two invocations on different responses overlapped: the first has read its
\* Content-Type and stands before its Cache-Control write, the second,
\* started meanwhile on an image, has ended without cache headers
C17_Witness ==
  /\ Len(inflight) = 2
  /\ inflight[1].pc = 12
  /\ inflight[1].res0 = NoHeaders
  /\ inflight[2].pc = Done
  /\ inflight[2].res0 = "Content-Type" :> JStr("image/png")
  /\ ~inflight[2].thrown
  /\ "Cross-Origin-Resource-Policy" \in DOMAIN inflight[2].res
  /\ "Cache-Control" \notin DOMAIN inflight[2].res

-----------------------------------------------------------------------------
BotDetectionRan == last = "botDetectionHeadersMiddleware"

\* the inbound signal headers and the response header each is echoed under
BotSignals == { <<"CF-Bot-Score", "X-Bot-Score">>, <<"CF-Verified-Bot", "X-Verified-Bot">> }

\* C21: for each of CF-Bot-Score and CF-Verified-Bot, on its own: when the
\* request carries the header, with any value, the bot-signal annotator
\* writes X-Bot-Score / X-Verified-Bot with that value, and when the request
\* does not carry it the annotator does not write the response header.
C21_EchoIffPresent ==
  BotDetectionRan =>
    \A s \in BotSignals :
      /\ s[1] \in DOMAIN req => WroteExactly(s[2], req[s[1]])
      /\ s[1] \notin DOMAIN req => ~Wrote(s[2])

-----------------------------------------------------------------------------
\* C22: what securityHeadersMiddleware writes is a function of the resolved
\* configuration and of the response's Content-Type alone: a run of the same
\* configuration on any other request and response with the same Content-Type
\* (absent counting as a value) makes the same header writes, with the same
\* values in the same order, and has the same outcome.
C22_Deterministic ==
  SecurityRan =>
    \A x \in Exchanges :
      getHeader(x[2], "Content-Type") = getHeader(resBefore, "Content-Type")
        => LET other == securityHeadersMiddleware(Sec.config, x[1], x[2])
           IN /\ other.trace = trace
              /\ other.thrown = thrown

\* the run was on a text/html response that carried Strict-Transport-Security
\* and X-Powered-By, for a request without headers; a run for a request with
\* CF-Bot-Score on a response with text/html alone writes the same
C22_Witness ==
  /\ SecurityRan
  /\ req = NoHeaders
  /\ "X-Powered-By" \in DOMAIN resBefore
  /\ resBefore["Content-Type"] = JStr("text/html")
  /\ Wrote("Strict-Transport-Security")
  /\ Wrote("Cache-Control")
  /\ <<"CF-Bot-Score" :> JStr("30"), "Content-Type" :> JStr("text/html")>> \in Exchanges
  /\ securityHeadersMiddleware(Sec.config, "CF-Bot-Score" :> JStr("30"),
                               "Content-Type" :> JStr("text/html")).trace = trace

-----------------------------------------------------------------------------
\* a function of that name has run on the current exchange
Ran(name) == \E i \in DOMAIN chain : chain[i] = name

\* the Content-Type the response had when the request reached the chain
ContentTypeAtArrival ==
  IF "Content-Type" \in DOMAIN res0 THEN res0["Content-Type"].v ELSE ""

AssetWords == {"image", "font", "css", "javascript"}

\* C23: the cache decision is taken on the Content-Type the response has when
\* securityHeadersMiddleware runs and is not taken again: when the middleware
\* ran to its end before the handler that sets an asset Content-Type, the
\* response still carries Cache-Control, Pragma and Expires after the
\* handler; after the middleware ran they are missing only when the asset
\* Content-Type was already set when the middleware ran.
C23_DecisionNotRevisited ==
  (Ran("securityHeadersMiddleware") /\ OnlySec /\ ~thrown)
    => /\ (\A w \in AssetWords : ~Contains(ContentTypeAtArrival, w))
            => /\ "Cache-Control" \in DOMAIN res /\ res["Cache-Control"] = Sec.config.cacheControl
               /\ "Pragma" \in DOMAIN res /\ res["Pragma"] = JStr("no-cache")
               /\ "Expires" \in DOMAIN res /\ res["Expires"] = JStr("0")
       /\ (\E n \in {"Cache-Control", "Pragma", "Expires"} : n \notin DOMAIN res)
            => \E w \in AssetWords : Contains(ContentTypeAtArrival, w)

\* the middleware ran on a response without Content-Type, then the handler
\* set image/png: the cache headers are still there
C23_Witness ==
  /\ chain = <<"securityHeadersMiddleware", "handler">>
  /\ res0 = NoHeaders
  /\ res["Content-Type"] = JStr("image/png")
  /\ res["Cache-Control"] = JStr("no-store, no-cache, must-revalidate, proxy-revalidate")
  /\ res["Pragma"] = JStr("no-cache")
  /\ res["Expires"] = JStr("0")

-----------------------------------------------------------------------------
\* C24: the configuration is fixed when securityHeaders(options) returns:
\* whatever the caller assigns afterwards to the options object, to the
\* contents of options.csp.directives and of options.permissionsPolicy
\* included, a later invocation makes the header writes of the configuration
\* built from the options as they were at construction.
C24_FixedAtAttachment ==
  SecurityRan =>
    LET fixed == securityHeadersMiddleware(securityHeadersConfig(Sec.options), req, resBefore)
    IN /\ trace = fixed.trace
       /\ res = fixed.res

-----------------------------------------------------------------------------
\* the calls of the Hono handler that have run to their end
HonoRan == {k \in DOMAIN inflight : inflight[k].promise = "resolved"}

\* the securityHeadersHono instance of the application
Hono == app[1]

\* the headers on which the two are compared
SharedHeaderNames ==
  {"Strict-Transport-Security", "X-Frame-Options", "X-Content-Type-Options", "Referrer-Policy"}

\* the values some run wrote for a header
ValuesWritten(run, name) ==
  {run.trace[i][3] : i \in {j \in DOMAIN run.trace :
                              run.trace[j][1] = "setHeader" /\ run.trace[j][2] = name}}

\* C25: for every options object, the handler of securityHeadersHono(options)
\* and the middleware of securityHeaders(options), run on the same response,
\* agree on Strict-Transport-Security, X-Frame-Options, X-Content-Type-Options
\* and Referrer-Policy: each is written by one iff by the other, with the
\* same value, also when an option is the empty string.
C25_HonoAgreesWithExpress ==
  \A k \in HonoRan :
    LET express == securityHeadersMiddleware(securityHeadersConfig(Hono.options),
                                             NoHeaders, inflight[k].res0)
    IN \A n \in SharedHeaderNames :
         ValuesWritten(inflight[k], n) = ValuesWritten(express, n)

-----------------------------------------------------------------------------
FastifyRan == last = "securityHeadersFastifyHook"

\* the securityHeadersFastify instance of the application
Fastify == app[CHOOSE i \in DOMAIN app : app[i].name = "securityHeadersFastifyHook"]

\* C26: on every call of the hook of securityHeadersFastify, for every
\* configuration and every reply, the promise resolves, once and after every
\* header write of the wrapped middleware, and the headers written on the
\* reply are those securityHeaders with the same options writes.
C26_FastifyResolves ==
  FastifyRan =>
    /\ Cardinality({i \in DOMAIN trace : trace[i] = <<"resolve">>}) = 1
    /\ trace[Len(trace)] = <<"resolve">>
    /\ res = securityHeadersMiddleware(securityHeadersConfig(Fastify.options), req, resBefore).res

-----------------------------------------------------------------------------
\* the application was given the array of allSecurityMiddleware
AllAttached == Len(app) = 3

\* the names each of the three may write
WritableNames(name) ==
  CASE name = "securityHeadersMiddleware" -> SecurityHeaderNames
    [] name = "rateLimitHeadersMiddleware" -> RateLimitNames \cup {"CF-Cache-Status"}
    [] name = "botDetectionHeadersMiddleware" -> {"X-Bot-Score", "X-Verified-Bot"}

\* the three, each run once in the order of the array on the exchange as it
\* arrived
InArrayOrder ==
  LET s1 == securityHeadersMiddleware(app[1].config, req, res0)
      s2 == rateLimitHeadersMiddleware(app[2].config, req, s1.res)
  IN botDetectionHeadersMiddleware(app[3].config, req, s2.res)

\* C27: allSecurityMiddleware returns three middlewares, securityHeaders,
\* rateLimitHeaders and botDetectionHeaders in that order, built from
\* options.headers, options.rateLimit and options.botDetection, each of which
\* may be undefined; each writes names of its own set only and the three sets
\* are pairwise disjoint; and when each of the three has run once on an
\* exchange, in whatever order, the response has the headers the three leave
\* when run in the order of the array.
C27_ThreeInAnyOrder ==
  /\ AllAttached
       => /\ <<app[1].name, app[2].name, app[3].name>>
               = <<"securityHeadersMiddleware", "rateLimitHeadersMiddleware",
                   "botDetectionHeadersMiddleware">>
          /\ \E o \in AllSecurityOptions :
               /\ app[1].options = Get(DefaultParam(o), "headers")
               /\ app[2].options = Get(DefaultParam(o), "rateLimit")
               /\ app[3].options = Get(DefaultParam(o), "botDetection")
          /\ app[1].config = securityHeadersConfig(app[1].options)
          /\ app[2].config = rateLimitHeadersConfig(app[2].options)
          /\ app[3].config = botDetectionHeadersConfig(app[3].options)
  /\ last \in MiddlewareNames
       => \A i \in DOMAIN trace :
            trace[i][1] = "setHeader" => trace[i][2] \in WritableNames(last)
  /\ \A m, n \in MiddlewareNames : m # n => WritableNames(m) \cap WritableNames(n) = {}
  /\ (/\ AllAttached
      /\ ~thrown
      /\ Len(chain) = 3
      /\ \A n \in MiddlewareNames : Ran(n))
       => res = InArrayOrder.res

\* the three ran in the order bot, rate limit, security on a request with a
\* bot score and a response with a Content-Type: all three wrote, and the
\* response is as after the order of the array
C27_Witness ==
  /\ AllAttached
  /\ chain = <<"botDetectionHeadersMiddleware", "rateLimitHeadersMiddleware",
               "securityHeadersMiddleware">>
  /\ ~thrown
  /\ app[1].options = Undefined
  /\ "X-Bot-Score" \in DOMAIN res
  /\ "X-RateLimit-Limit" \in DOMAIN res
  /\ "Cache-Control" \in DOMAIN res
  /\ "Content-Type" \in DOMAIN res0
  /\ res = InArrayOrder.res

-----------------------------------------------------------------------------
\* C28: a default is taken only for an option that is undefined or null; a
\* falsy value the caller supplied is kept: hsts.maxAge = 0 gives max-age=0,
\* hsts.includeSubDomains = false gives no "; includeSubDomains",
\* hsts.enabled = false and csp.enabled = false write no header, and a rate
\* limit or window of 0 is written as 0.
C28_FalsyValuesHonoured ==
  /\ HasSec
       => \A f \in GroupFields :
            Sec.config[f[1]][f[2]]
              = IF Nullish(Option(f[1], f[2])) THEN f[3] ELSE Option(f[1], f[2])
  /\ (SecurityRan /\ Sec.config.hsts.enabled = JBool(TRUE) /\ Option("hsts", "maxAge") = JNum(0))
       => /\ Cardinality(WritesOf("Strict-Transport-Security")) = 1
          /\ StartsWith(res["Strict-Transport-Security"].v, "max-age=0")
          /\ ~Contains(res["Strict-Transport-Security"].v, "31536000")
  /\ (SecurityRan /\ Sec.config.hsts.enabled = JBool(TRUE)
        /\ Option("hsts", "includeSubDomains") = JBool(FALSE))
       => /\ Cardinality(WritesOf("Strict-Transport-Security")) = 1
          /\ ~Contains(res["Strict-Transport-Security"].v, "includeSubDomains")
  /\ (SecurityRan /\ Option("hsts", "enabled") = JBool(FALSE))
       => ~Wrote("Strict-Transport-Security")
  /\ (SecurityRan /\ Option("csp", "enabled") = JBool(FALSE))
       => ~Wrote("Content-Security-Policy")
  /\ (RateLimitRan /\ RateOption("limit") = JNum(0))
       => WroteExactly("X-RateLimit-Limit", JNum(0))
  /\ (RateLimitRan /\ RateOption("window") = JNum(0))
       => WroteExactly("X-RateLimit-Window", JNum(0))

\* hsts: { maxAge: 0, includeSubDomains: false } was supplied and the header
\* written is max-age=0
C28_Witness ==
  /\ SecurityRan
  /\ Option("hsts", "maxAge") = JNum(0)
  /\ Option("hsts", "includeSubDomains") = JBool(FALSE)
  /\ Option("hsts", "preload") = Undefined
  /\ WroteExactly("Strict-Transport-Security", JStr("max-age=0"))
  /\ Wrote("Content-Security-Policy")

====
